---------------------------- MODULE Spec2Model ----------------------------
(***************************************************************************)
(* A model of the GPU PIV pipeline of openpiv-python-gpu:                  *)
(*   gpu_process.py    grid geometry, correlator peak search, strain,      *)
(*                     replacement / cross-iteration interpolation and the *)
(*                     PIVGPU driver;                                      *)
(*   gpu_validation.py neighbour statistics and the validation criteria.   *)
(*                                                                         *)
(* Floating-point values are modelled as exact rationals extended with     *)
(* NaN and the two infinities, so that x/0, 0/0 and inf*0 behave as IEEE   *)
(* arithmetic does on the device; rounding is not modelled.                *)
(***************************************************************************)
EXTENDS Integers, Sequences, FiniteSets, TLC

-----------------------------------------------------------------------------
(* Bounds of the model.                                                    *)

\* image sides (pixels) explored by the grid-geometry specification
MaxImage == 20
\* window sizes explored there are 4 * i, i in 0..MaxWsUnits
MaxWsUnits == 6
\* overlap ratios explored are n / d with d in 1..MaxDen, n in -1..d+1
MaxDen == 4

-----------------------------------------------------------------------------
(* Extended rational arithmetic: <<n, d>> with d > 0 in lowest terms is    *)
(* n/d; <<0, 0>> is NaN; <<1, 0>> and <<-1, 0>> are +inf and -inf.         *)

Abs(i) == IF i < 0 THEN -i ELSE i

Sgn(i) == IF i > 0 THEN 1 ELSE IF i < 0 THEN -1 ELSE 0

RECURSIVE Gcd(_, _)
Gcd(a, b) == IF b = 0 THEN a ELSE Gcd(b, a % b)

NaN == <<0, 0>>

Inf(s) == <<s, 0>>

\* n/d for integers n and d # 0, in lowest terms
Frac(n, d) ==
    LET g == Gcd(Abs(n), Abs(d))
    IN  <<(Sgn(d) * n) \div g, Abs(d) \div g>>

F(i) == <<i, 1>>

IsNaN(a) == a = NaN

IsInf(a) == a[2] = 0 /\ a[1] # 0

IsFinite(a) == a[2] > 0

FNeg(a) == <<-a[1], a[2]>>

FAbs(a) == <<Abs(a[1]), a[2]>>

FAdd(a, b) ==
    IF IsNaN(a) \/ IsNaN(b) THEN NaN
    ELSE IF IsInf(a) THEN (IF IsInf(b) /\ b[1] # a[1] THEN NaN ELSE a)
    ELSE IF IsInf(b) THEN b
    ELSE Frac(a[1] * b[2] + b[1] * a[2], a[2] * b[2])

FSub(a, b) == FAdd(a, FNeg(b))

FMul(a, b) ==
    IF IsNaN(a) \/ IsNaN(b) THEN NaN
    ELSE IF IsInf(a) \/ IsInf(b)
         THEN (IF a[1] = 0 \/ b[1] = 0 THEN NaN ELSE Inf(Sgn(a[1]) * Sgn(b[1])))
    ELSE Frac(a[1] * b[1], a[2] * b[2])

\* division by a zero denominator is division by +0
FDiv(a, b) ==
    IF IsNaN(a) \/ IsNaN(b) THEN NaN
    ELSE IF IsInf(a)
         THEN (IF IsInf(b) THEN NaN ELSE Inf(a[1] * (IF b[1] < 0 THEN -1 ELSE 1)))
    ELSE IF IsInf(b) THEN F(0)
    ELSE IF b[1] = 0 THEN (IF a[1] = 0 THEN NaN ELSE Inf(Sgn(a[1])))
    ELSE Frac(a[1] * b[2], a[2] * b[1])

\* comparisons; every ordered comparison with NaN is false
FLt(a, b) ==
    /\ ~IsNaN(a)
    /\ ~IsNaN(b)
    /\ IF IsInf(a) /\ IsInf(b) THEN a[1] < b[1] ELSE a[1] * b[2] < b[1] * a[2]

FEq(a, b) == ~IsNaN(a) /\ ~IsNaN(b) /\ a = b

FNe(a, b) == ~FEq(a, b)

FLe(a, b) == FLt(a, b) \/ FEq(a, b)

FGt(a, b) == FLt(b, a)

FGe(a, b) == FLe(b, a)

\* floor of a finite value, as an integer
FFloor(a) == a[1] \div a[2]

\* int(): truncation toward zero of a finite value
FTrunc(a) == Sgn(a[1]) * (Abs(a[1]) \div a[2])

\* a C comparison used as a number: (float)(cond)
Bool(c) == IF c THEN 1 ELSE 0

-----------------------------------------------------------------------------
(* Grid geometry.                                                          *)

\* one record per component studied; a specification drives one of them and
\* leaves the others idle
VARIABLES grid, med, val, strain, interp, run

vars == <<grid, med, val, strain, interp, run>>

Idle == [pc |-> "idle"]

\* the three assertions without the test that the window size is a
\* multiple of 8
FieldArgsValidAnyMultiple(window_size, overlap_ratio) ==
    /\ window_size >= 8
    /\ FLt(F(0), overlap_ratio)
    /\ FLt(overlap_ratio, F(1))

\* get_field_shape's three assertions (also those of get_field_coords)
FieldArgsValid(window_size, overlap_ratio) ==
    /\ window_size >= 8
    /\ window_size % 8 = 0
    /\ FLt(F(0), overlap_ratio)
    /\ FLt(overlap_ratio, F(1))

\* floor-division count of nodes along one side, spacing a float
FieldShapeDimFloorOnly(size, spacing) == FFloor(FDiv(F(size), spacing))

FieldShapeDim(size, spacing) == FFloor(FDiv(FSub(F(size), spacing), spacing))

\* get_field_shape: the assertion error, or (n_row, n_col)
get_field_shape(image_size, window_size, overlap_ratio) ==
    IF ~FieldArgsValid(window_size, overlap_ratio) THEN "AssertionError"
    ELSE LET spacing == FMul(F(window_size), overlap_ratio)
         IN  <<FieldShapeDim(image_size[1], spacing),
               FieldShapeDim(image_size[2], spacing)>>

\* PIVGPU.__init__: spacing[K] = ws[K] - int(ws[K] * overlap_ratio)
PIVSpacing(ws, overlap_ratio) == ws - FTrunc(FMul(F(ws), overlap_ratio))

\* PIVGPU.__init__: n_row[K] = (ht - spacing[K]) // spacing[K] on numpy
\* integers: floor division, and 0 (with a warning) when the divisor is 0
PIVShapeDim(size, spacing) ==
    IF spacing = 0 THEN 0
    ELSE IF spacing > 0 THEN (size - spacing) \div spacing
    ELSE (spacing - size) \div (-spacing)

Ratios == {r \in {Frac(n, d) : n \in -1 .. MaxDen + 1, d \in 1 .. MaxDen} :
              FLe(F(-1), r) /\ FLe(r, F(2))}

WindowSizes == {4 * i : i \in 0 .. MaxWsUnits}

GridInit ==
    /\ med = Idle /\ val = Idle /\ strain = Idle /\ interp = Idle /\ run = Idle
    /\ \E ht \in 1 .. MaxImage, wd \in 1 .. MaxImage, ws \in WindowSizes, r \in Ratios :
        grid = [pc |-> "input", image_size |-> <<ht, wd>>, window_size |-> ws,
                overlap_ratio |-> r]

\* a call of get_field_shape(image_size, window_size, overlap_ratio)
CallGetFieldShape ==
    /\ grid.pc = "input"
    /\ grid' = [grid EXCEPT !.pc = "get_field_shape"] @@
               [result |-> get_field_shape(grid.image_size, grid.window_size,
                                           grid.overlap_ratio),
                spacing |-> FMul(F(grid.window_size), grid.overlap_ratio)]
    /\ UNCHANGED <<med, val, strain, interp, run>>

\* the grid part of PIVGPU.__init__ for one iteration K with ws[K] = window_size
CallPIVGridInit ==
    /\ grid.pc = "input"
    /\ LET sp == PIVSpacing(grid.window_size, grid.overlap_ratio)
       IN  grid' = [grid EXCEPT !.pc = "pivgpu_init"] @@
                   [result |-> <<PIVShapeDim(grid.image_size[1], sp),
                                 PIVShapeDim(grid.image_size[2], sp)>>,
                    spacing |-> F(sp)]
    /\ UNCHANGED <<med, val, strain, interp, run>>

\* np.linspace(start, stop, num) for num >= 0
linspace(start, stop, num) ==
    [i \in 0 .. (num - 1) |->
        IF num = 1 THEN start
        ELSE FAdd(start, FMul(F(i), FDiv(FSub(stop, start), F(num - 1))))]

\* get_field_coords: the assertions are those of get_field_shape; np.linspace
\* and np.tile raise ValueError for a negative count
get_field_coords(field_shape, window_size, overlap_ratio) ==
    LET n_row == field_shape[1]
        n_col == field_shape[2]
        half == FDiv(F(window_size), F(2))
        spacing == FMul(F(window_size), overlap_ratio)
    IN  IF ~FieldArgsValid(window_size, overlap_ratio) THEN [raised |-> "AssertionError"]
        ELSE IF n_col < 0 \/ n_row < 0 THEN [raised |-> "ValueError"]
        ELSE [raised |-> "none",
              x |-> [r \in 0 .. (n_row - 1) |->
                        linspace(half, FAdd(half, FMul(spacing, F(n_col - 1))), n_col)],
              y |-> [r \in 0 .. (n_row - 1) |-> [c \in 0 .. (n_col - 1) |->
                        linspace(half, FAdd(half, FMul(spacing, F(n_row - 1))), n_row)[r]]]]

\* field shapes passed to get_field_coords; get_field_shape returns a negative
\* count for an image smaller than the spacing
FieldShapes == {<<-1, 2>>, <<2, -1>>, <<0, 0>>, <<2, 3>>}

\* a call of get_field_coords(field_shape, window_size, overlap_ratio)
CallGetFieldCoords ==
    /\ grid.pc = "input"
    /\ \E field_shape \in FieldShapes :
          grid' = [grid EXCEPT !.pc = "get_field_coords"] @@
                  [field_shape |-> field_shape,
                   coords |-> get_field_coords(field_shape, grid.window_size,
                                               grid.overlap_ratio)]
    /\ UNCHANGED <<med, val, strain, interp, run>>

GridNext == CallGetFieldShape \/ CallPIVGridInit \/ CallGetFieldCoords

SpecGrid == GridInit /\ [][GridNext]_vars

\* the inputs C1 speaks of: valid arguments, and at least one window fits
GridValidInput ==
    /\ FieldArgsValid(grid.window_size, grid.overlap_ratio)
    /\ grid.result # "AssertionError"
    /\ grid.result[1] >= 1
    /\ grid.result[2] >= 1

\* C1: for valid (H, W, ws, r) with at least one window, the shape computed by
\* get_field_shape and by PIVGPU.__init__ satisfies n_row*spacing + spacing <= H
\* and n_col*spacing + spacing <= W for the spacing the routine itself used.
GridFitsImage ==
    (grid.pc \in {"get_field_shape", "pivgpu_init"} /\ GridValidInput) =>
        /\ FLe(FAdd(FMul(F(grid.result[1]), grid.spacing), grid.spacing),
               F(grid.image_size[1]))
        /\ FLe(FAdd(FMul(F(grid.result[2]), grid.spacing), grid.spacing),
               F(grid.image_size[2]))

\* a shape of several rows and columns was computed by PIVGPU.__init__ on an
\* image whose sides are no multiple of the spacing
GridFitsImageWitness ==
    /\ grid.pc = "pivgpu_init"
    /\ GridValidInput
    /\ grid.result[1] >= 2
    /\ grid.result[2] >= 3
    /\ grid.image_size[1] % grid.spacing[1] # 0

\* the arguments that get_field_shape and get_field_coords must refuse
GridArgsInvalid ==
    \/ grid.window_size < 8
    \/ grid.window_size % 8 # 0
    \/ ~(FLt(F(0), grid.overlap_ratio) /\ FLt(grid.overlap_ratio, F(1)))

-----------------------------------------------------------------------------
(* Median of the neighbours: the 8-wire sorting network of gpu_median_vel  *)
(* (the same device functions are repeated in gpu_median_fluc).            *)

\* neighbour values explored are 0..MaxMedianVal; an absent neighbour holds 0
\* (what _gpu_get_neighbours leaves) or MaxMedianVal + 1
MaxMedianVal == 1

\* swap(A, a, b)
swap(A, a, b) == [A EXCEPT ![a] = A[b], ![b] = A[a]]

\* a comparator that orders by value alone
compareValuesOnly(AB, a, b) ==
    IF FGt(AB.A[a], AB.A[b])
    THEN [A |-> swap(AB.A, a, b), B |-> swap(AB.B, a, b)]
    ELSE AB

\* compare(A, B, a, b); in C, B[a] == B[b] == 1 is (B[a] == B[b]) == 1
compare(AB, a, b) ==
    IF AB.B[a] < AB.B[b]
    THEN [A |-> swap(AB.A, a, b), B |-> swap(AB.B, a, b)]
    ELSE IF FGt(AB.A[a], AB.A[b]) /\ Bool(AB.B[a] = AB.B[b]) = 1
    THEN [A |-> swap(AB.A, a, b), B |-> swap(AB.B, a, b)]
    ELSE AB

\* the comparators of sort(A, B), in the order of the source
SortNetwork ==
    << <<0, 1>>, <<2, 3>>, <<4, 5>>, <<6, 7>>, <<0, 2>>, <<1, 3>>, <<4, 6>>,
       <<5, 7>>, <<1, 2>>, <<5, 6>>, <<0, 4>>, <<3, 7>>, <<1, 5>>, <<2, 6>>,
       <<1, 4>>, <<3, 6>>, <<2, 4>>, <<3, 5>>, <<3, 4>> >>

RECURSIVE sortFrom(_, _)
sortFrom(AB, i) ==
    IF i > Len(SortNetwork) THEN AB
    ELSE sortFrom(compare(AB, SortNetwork[i][1], SortNetwork[i][2]), i + 1)

\* sort(A, B)
sort(AB) == sortFrom(AB, 1)

\* the j-th local array slot takes neighbour i of 0..8, the centre 4 skipped
SlotNeighbour(j) == IF j < 4 THEN j ELSE j + 1

\* the loop that fills A and B from n and np
LocalArrays(n, np) ==
    [A |-> [j \in 0 .. 7 |-> n[SlotNeighbour(j)]] @@ <<>>,
     B |-> [j \in 0 .. 7 |-> np[SlotNeighbour(j)]] @@ <<>>]

\* int N = B[0] + ... + B[7]
CountPresent(B) == B[0] + B[1] + B[2] + B[3] + B[4] + B[5] + B[6] + B[7]

\* the indices of A the "return the median" statement reads
MedianReads(N) == IF N % 2 = 0 THEN {N \div 2 - 1, N \div 2} ELSE {N \div 2}

\* A[i] of the 8-element local array; outside it the read is undefined and
\* yields whatever the caller supplies as garbage
ReadLocal(A, i, garbage) == IF i \in 0 .. 7 THEN A[i] ELSE garbage

\* the result statement of u_median_vel / v_median_vel / u_fluc_k / v_fluc_k
MedianOfSorted(A, N, garbage) ==
    IF N % 2 = 0
    THEN FDiv(FAdd(ReadLocal(A, N \div 2 - 1, garbage),
                   ReadLocal(A, N \div 2, garbage)), F(2))
    ELSE ReadLocal(A, N \div 2, garbage)

\* one thread of u_median_vel: the median of the neighbours n (0..8) with
\* presence flags np
u_median_vel(n, np, garbage) ==
    LET AB == sort(LocalArrays(n, np))
    IN  MedianOfSorted(AB.A, CountPresent(AB.B), garbage)

MedianVals == {F(i) : i \in 0 .. MaxMedianVal}

AbsentVals == {F(0), F(MaxMedianVal + 1)}

\* what can be read outside the local array
GarbageVals == {NaN, F(0), F(MaxMedianVal + 1)}

\* the (value, flag) pairs one neighbour can hold
NeighbourCells ==
    {<<v, 1>> : v \in MedianVals} \cup {<<v, 0>> : v \in AbsentVals}

MedianInit ==
    /\ grid = Idle /\ val = Idle /\ strain = Idle /\ interp = Idle /\ run = Idle
    /\ \E c \in [{0, 1, 2, 3, 5, 6, 7, 8} -> NeighbourCells] :
          med = [pc |-> "input",
                 n  |-> [i \in 0 .. 8 |-> IF i = 4 THEN F(0) ELSE c[i][1]],
                 np |-> [i \in 0 .. 8 |-> IF i = 4 THEN 0 ELSE c[i][2]]]

\* the kernel launch of gpu_median_vel for one node
RunMedianVel ==
    /\ med.pc = "input"
    /\ \E garbage \in GarbageVals :
          med' = [med EXCEPT !.pc = "done"] @@
                 [u_median |-> u_median_vel(med.n, med.np, garbage)]
    /\ UNCHANGED <<grid, val, strain, interp, run>>

MedianNext == RunMedianVel

SpecMedian == MedianInit /\ [][MedianNext]_vars

\* reference: the present neighbour values, counted
PresentIdx == {i \in 0 .. 8 : med.np[i] = 1}

NumBelow(v) == Cardinality({i \in PresentIdx : FLt(med.n[i], v)})

NumAtMost(v) == Cardinality({i \in PresentIdx : FLe(med.n[i], v)})

\* the k-th smallest (k = 1..N) of the present values
KthPresent(k) ==
    CHOOSE v \in {med.n[i] : i \in PresentIdx} : NumBelow(v) < k /\ k <= NumAtMost(v)

RefMedian ==
    LET N == Cardinality(PresentIdx)
    IN  IF N % 2 = 1 THEN KthPresent((N + 1) \div 2)
        ELSE FDiv(FAdd(KthPresent(N \div 2), KthPresent(N \div 2 + 1)), F(2))

\* C4: with at least one neighbour present, the value computed by the sorting
\* network of gpu_median_vel is the median of exactly the present values,
\* whatever the absent entries hold.
MedianOfPresent ==
    (med.pc = "done" /\ PresentIdx # {}) => med.u_median = RefMedian

\* the kernel ran on a node with four present neighbours and absent entries
\* holding a value larger than every present one, and the median lies strictly
\* between two present values
MedianOfPresentWitness ==
    /\ med.pc = "done"
    /\ Cardinality(PresentIdx) = 4
    /\ \E i \in 0 .. 8 : i # 4 /\ med.np[i] = 0 /\ med.n[i] = F(MaxMedianVal + 1)
    /\ med.u_median = <<1, 2>>

-----------------------------------------------------------------------------
(* Validation: gpu_validation and the kernels it launches, on a field of   *)
(* n_row x n_col nodes stored flat (node w is row w \div n_col, column     *)
(* w % n_col).                                                             *)

\* field sides explored by the validation specification are 1..MaxValDim
MaxValDim == 3

\* find_neighbours: the presence flags np[w * 9 + i], i in 0..8, of node w
find_neighbours(w, n_row, n_col) ==
    LET row_zero == Bool(w >= n_col)
        row_max  == Bool(w < n_col * (n_row - 1))
        col_zero == Bool(w % n_col # 0)
        col_max  == Bool(w % n_col # n_col - 1)
    IN  [i \in 0 .. 8 |->
            CASE i = 0 -> row_zero * col_zero
              [] i = 1 -> row_zero
              [] i = 2 -> row_zero * col_max
              [] i = 3 -> col_zero
              [] i = 4 -> 0
              [] i = 5 -> col_max
              [] i = 6 -> row_max * col_zero
              [] i = 7 -> row_max
              [] i = 8 -> row_max * col_max]

\* the flat index read for neighbour i of node w
NeighbourIndex(w, i, n_col) ==
    CASE i = 0 -> w - n_col - 1
      [] i = 1 -> w - n_col
      [] i = 2 -> w - n_col + 1
      [] i = 3 -> w - 1
      [] i = 4 -> w
      [] i = 5 -> w + 1
      [] i = 6 -> w + n_col - 1
      [] i = 7 -> w + n_col
      [] i = 8 -> w + n_col + 1

\* get_u_neighbours / get_v_neighbours: the values n[w * 18 + i] of node w in
\* the zero-initialised neighbours array
get_neighbours(f, w, n_row, n_col) ==
    LET np == find_neighbours(w, n_row, n_col)
    IN  [i \in 0 .. 8 |->
            IF np[i] # 0 THEN f[NeighbourIndex(w, i, n_col)] ELSE F(0)]

\* the eight-term sums of the mean, fluctuation and rms kernels (i # 4)
SumNeighbours(a) ==
    FAdd(FAdd(FAdd(FAdd(FAdd(FAdd(FAdd(a[0], a[1]), a[2]), a[3]), a[5]), a[6]), a[7]), a[8])

\* float denominator = np[0] + ... + np[8] without np[4]
SumPresent(np) == np[0] + np[1] + np[2] + np[3] + np[5] + np[6] + np[7] + np[8]

\* u_mean_vel / v_mean_vel for one node
mean_vel(n, np) == FDiv(SumNeighbours(n), F(SumPresent(np)))

\* u_fluc_k / v_fluc_k of gpu_mean_fluc for one node: every slot enters the
\* numerator, the absent ones with their stored zero
mean_fluc(n, np, f_mean) ==
    FDiv(SumNeighbours([i \in 0 .. 8 |-> FAbs(FSub(n[i], f_mean))]), F(SumPresent(np)))

\* u_fluc_k / v_fluc_k of gpu_median_fluc for one node
median_fluc(n, np, f_median, garbage) ==
    u_median_vel([i \in 0 .. 8 |-> FAbs(FSub(n[i], f_median))], np, garbage)

\* the neighbour_validation kernel for one node; 0.1 is the constant of the
\* kernel
neighbour_validation(val_list, f, f_mean, f_fluc, tol) ==
    LET f_validation ==
            Bool(FLt(FDiv(FAbs(FSub(f, f_mean)), FAdd(f_fluc, Frac(1, 10))), tol))
    IN  val_list * f_validation

\* a kernel that marks a node only when the ratio is strictly above tol
neighbour_validation_strict(val_list, f, f_mean, f_fluc, tol) ==
    LET f_validation ==
            Bool(~FGt(FDiv(FAbs(FSub(f, f_mean)), FAdd(f_fluc, Frac(1, 10))), tol))
    IN  val_list * f_validation

ALLOWED_VALIDATION_METHODS == {"s2n", "median_velocity", "mean_velocity", "rms_velocity"}

\* DEFAULT_VALIDATION_TOLS
DEFAULT_VALIDATION_TOLS ==
    [s2n_tol |-> Frac(1, 10), median_tol |-> F(2), mean_tol |-> F(2), rms_tol |-> F(2)]

\* an optional tolerance argument: <<>> stands for None
NoneTol == <<>>

TolOrDefault(tol, name) == IF tol = NoneTol THEN DEFAULT_VALIDATION_TOLS[name] ELSE tol

\* what one neighbour criterion compares the value of a node with: the
\* statistic and the deviation computed from the node's neighbours n, np
WithMedian(n, np, f_median, garbage) ==
    [stat |-> f_median, dev |-> median_fluc(n, np, f_median, garbage)]

WithMean(n, np, f_mean) == [stat |-> f_mean, dev |-> mean_fluc(n, np, f_mean)]

\* rms is what the launch of gpu_rms left in u_rms_d / v_rms_d
StatDev(n, np, method, garbage, rms) ==
    CASE method = "median_velocity" -> WithMedian(n, np, u_median_vel(n, np, garbage), garbage)
      [] method = "mean_velocity" -> WithMean(n, np, mean_vel(n, np))
      [] method = "rms_velocity" -> [stat |-> mean_vel(n, np), dev |-> rms]

\* the tolerance a criterion uses
CriterionTol(tols, method) ==
    CASE method = "median_velocity" -> TolOrDefault(tols.median_tol, "median_tol")
      [] method = "mean_velocity" -> TolOrDefault(tols.mean_tol, "mean_tol")
      [] method = "rms_velocity" -> TolOrDefault(tols.rms_tol, "rms_tol")

\* the blocks of gpu_validation in source order
NeighbourCriteria == <<"median_velocity", "mean_velocity", "rms_velocity">>

\* every neighbour criterion, named or not
SelectedCriteriaAll(validation_method) == 1 .. 3

\* the neighbour criteria named in validation_method, as positions in
\* NeighbourCriteria
SelectedCriteria(validation_method) ==
    {i \in 1 .. 3 : NeighbourCriteria[i] \in validation_method}

\* per selected criterion and node: the statistic and deviation of u and of v
\* and the tolerance
SelectedStats(u, v, n_row, n_col, validation_method, tols, garbage, rms) ==
    [i \in SelectedCriteria(validation_method) |->
        [w \in 0 .. (n_row * n_col - 1) |->
            [u |-> StatDev(get_neighbours(u, w, n_row, n_col), find_neighbours(w, n_row, n_col),
                           NeighbourCriteria[i], garbage, rms),
             v |-> StatDev(get_neighbours(v, w, n_row, n_col), find_neighbours(w, n_row, n_col),
                           NeighbourCriteria[i], garbage, rms),
             tol |-> CriterionTol(tols, NeighbourCriteria[i])]] @@ <<>>] @@ <<>>

\* the two _neighbour_validation launches (u then v) of one criterion on node w
CriterionPass(val_list, u, v, w, st) ==
    neighbour_validation(
        neighbour_validation(val_list, u[w], st.u.stat, st.u.dev, st.tol),
        v[w], st.v.stat, st.v.dev, st.tol)

\* val_locations_d[w] after the blocks of the selected criteria, starting from
\* the ones_like array of the first launch
ValLocation(u, v, w, stats) ==
    LET after(val_list, i) ==
            IF i \in DOMAIN stats
            THEN CriterionPass(val_list, u, v, w, stats[i][w])
            ELSE val_list
    IN  after(after(after(1, 1), 2), 3)

\* the exception gpu_validation ends with, "none" when it returns
ValidationError(has_s2n, validation_method, rms_fault) ==
    IF "s2n" \in validation_method /\ ~has_s2n THEN "AssertionError"
    ELSE IF "s2n" \in validation_method THEN "LogicError"
    ELSE IF "rms_velocity" \in validation_method /\ rms_fault THEN "LaunchError"
    ELSE "none"

\* gpu_validation when it returns, the criteria's arrays being computed
ValidationResult(u, v, n_row, n_col, garbage, stats) ==
    LET Nodes == 0 .. (n_row * n_col - 1)
    IN  [error |-> "none",
         val_is_none |-> DOMAIN stats = {},
         val_locations |-> [w \in Nodes |-> ValLocation(u, v, w, stats)],
         u_median |-> [w \in Nodes |->
                          u_median_vel(get_neighbours(u, w, n_row, n_col),
                                       find_neighbours(w, n_row, n_col), garbage)],
         v_median |-> [w \in Nodes |->
                          u_median_vel(get_neighbours(v, w, n_row, n_col),
                                       find_neighbours(w, n_row, n_col), garbage)],
         stats |-> stats]

\* gpu_validation(u_d, v_d, sig2noise_d, validation_method, s2n_tol, median_tol,
\* mean_tol, rms_tol); validation_method is a tuple of names, has_s2n tells
\* whether sig2noise_d was passed, rms.fault whether the device aborted the
\* launch of gpu_rms and rms.value what that launch left otherwise.
\* val_is_none: val_locations_d is None.
gpu_validation(u, v, n_row, n_col, has_s2n, validation_method, tols, garbage, rms) ==
    IF ValidationError(has_s2n, validation_method, rms.fault) # "none"
    THEN [error |-> ValidationError(has_s2n, validation_method, rms.fault)]
    ELSE ValidationResult(u, v, n_row, n_col, garbage,
                          SelectedStats(u, v, n_row, n_col, validation_method, tols,
                                        garbage, rms.value))

\* velocity deviations of the single perturbed node of an explored field
Perturbations == {F(0), Frac(1, 5), Frac(-1, 5), F(1)}

\* a uniform field with node p displaced by d
PerturbedField(size, base, p, d) ==
    [w \in 0 .. (size - 1) |-> IF w = p THEN FAdd(base, d) ELSE base]

\* tolerance arguments explored: None (the default applies) or 1
TolArgs == {NoneTol, F(1)}

\* what an out-of-bounds read can yield; it happens only for a node without
\* neighbours
GarbageFor(n_row, n_col) == IF n_row * n_col = 1 THEN GarbageVals ELSE {F(0)}

\* what the launch of gpu_rms, whose arguments are passed in an order other
\* than the kernel's parameters, can do
RmsOutcomes ==
    {[fault |-> TRUE, value |-> NaN]} \cup
    {[fault |-> FALSE, value |-> x] : x \in {F(0), F(1), NaN}}

RmsFor(validation_method) ==
    IF "rms_velocity" \in validation_method /\ "s2n" \notin validation_method
    THEN RmsOutcomes ELSE {[fault |-> FALSE, value |-> F(0)]}

ValInit ==
    /\ grid = Idle /\ med = Idle /\ strain = Idle /\ interp = Idle /\ run = Idle
    /\ \E n_row \in 1 .. MaxValDim, n_col \in 1 .. MaxValDim :
       \E p \in 0 .. (n_row * n_col - 1) :
       \E du \in Perturbations, dv \in {F(0), F(1)} :
       \E methods \in SUBSET ALLOWED_VALIDATION_METHODS, tol \in TolArgs, has_s2n \in BOOLEAN :
          /\ has_s2n => "s2n" \in methods
          /\ val = [pc |-> "input", n_row |-> n_row, n_col |-> n_col,
                    u |-> PerturbedField(n_row * n_col, F(1), p, du),
                    v |-> PerturbedField(n_row * n_col, F(0), p, dv),
                    has_s2n |-> has_s2n, validation_method |-> methods,
                    tols |-> [s2n_tol |-> NoneTol, median_tol |-> tol,
                              mean_tol |-> tol, rms_tol |-> tol]]

\* one call of gpu_validation
CallGpuValidation ==
    /\ val.pc = "input"
    /\ \E garbage \in GarbageFor(val.n_row, val.n_col), rms \in RmsFor(val.validation_method) :
          val' = [val EXCEPT !.pc = "done"] @@
                 [result |-> gpu_validation(val.u, val.v, val.n_row, val.n_col, val.has_s2n,
                                            val.validation_method, val.tols, garbage, rms)]
    /\ UNCHANGED <<grid, med, strain, interp, run>>

ValNext == CallGpuValidation

SpecValid == ValInit /\ [][ValNext]_vars

ValNodes == 0 .. (val.n_row * val.n_col - 1)

\* |f - stat| / (dev + 0.1)
Ratio(f, st) == FDiv(FAbs(FSub(f, st.stat)), FAdd(st.dev, Frac(1, 10)))

ValidationRan ==
    /\ val.pc = "done"
    /\ val.result.error = "none"
    /\ ~val.result.val_is_none

\* node w is within the tolerance of every selected criterion, for u and v
NodeWithin(w) ==
    \A i \in DOMAIN val.result.stats :
        LET st == val.result.stats[i][w]
        IN  FLe(Ratio(val.u[w], st.u), st.tol) /\ FLe(Ratio(val.v[w], st.v), st.tol)

\* C5: a validation pass with the median, mean or rms criteria over a field in
\* which every node has |f - stat| / (dev + 0.1) <= tol for u and v, nodes
\* whose ratio equals tol included, flags nothing: a node is flagged only when
\* a ratio is above tol.
NoOutlierFlagsNothing ==
    (ValidationRan /\ \A w \in ValNodes : NodeWithin(w)) =>
        \A w \in ValNodes : val.result.val_locations[w] = 1

\* what the kernel does: a node stays valid only while every ratio is strictly
\* below the tolerance
FlaggedIffNotBelow ==
    ValidationRan =>
        \A w \in ValNodes :
            (val.result.val_locations[w] = 1) <=>
            \A i \in DOMAIN val.result.stats :
                LET st == val.result.stats[i][w]
                IN  FLt(Ratio(val.u[w], st.u), st.tol) /\ FLt(Ratio(val.v[w], st.v), st.tol)

-----------------------------------------------------------------------------
(* Strain: gpu_strain and its gradient kernel on an m x n field stored     *)
(* flat, row after row.                                                    *)

\* field sides explored by the strain specification are 1..MaxStrainDim
MaxStrainDim == 4
\* slopes of the explored linear fields are -MaxSlope..MaxSlope
MaxSlope == 1

\* u[k] of an array of the given size; a read outside it is undefined and
\* yields the garbage supplied
ReadArray(f, k, size, garbage) == IF k \in 0 .. (size - 1) THEN f[k] ELSE garbage

\* (f[hi] - f[lo]) / h
OneSided(f, hi, lo, h, size, garbage) ==
    FDiv(FSub(ReadArray(f, hi, size, garbage), ReadArray(f, lo, size, garbage)), h)

\* a main-body difference that is not halved
CentralNotHalved(f, hi, lo, h, size, garbage) == OneSided(f, hi, lo, h, size, garbage)

\* (f[hi] - f[lo]) / 2 / h
Central(f, hi, lo, h, size, garbage) ==
    FDiv(FDiv(FSub(ReadArray(f, hi, size, garbage), ReadArray(f, lo, size, garbage)), F(2)), h)

\* the x-axis statements of thread i: writes to strain at offset 0 (u_x) and
\* size * 2 (v_x)
gradient_x(i, u, v, h, m, n, garbage) ==
    LET size == m * n
        row == i \div n
        col == i % n
    IN  IF col = 0
        THEN (row * n :> OneSided(u, row * n + 1, row * n, h, size, garbage))
             @@ (size * 2 + row * n :> OneSided(v, row * n + 1, row * n, h, size, garbage))
        ELSE IF col = n - 1
        THEN ((row + 1) * n - 1 :>
                 OneSided(u, (row + 1) * n - 1, (row + 1) * n - 2, h, size, garbage))
             @@ (size * 2 + (row + 1) * n - 1 :>
                 OneSided(v, (row + 1) * n - 1, (row + 1) * n - 2, h, size, garbage))
        ELSE (row * n + col :>
                 Central(u, row * n + col + 1, row * n + col - 1, h, size, garbage))
             @@ (size * 2 + row * n + col :>
                 Central(v, row * n + col + 1, row * n + col - 1, h, size, garbage))

\* the y-axis statements of thread i: writes at offset size (u_y) and
\* size * 3 (v_y)
gradient_y(i, u, v, h, m, n, garbage) ==
    LET size == m * n
        row == i \div n
        col == i % n
    IN  IF row = 0
        THEN (size + col :> OneSided(u, n + col, col, h, size, garbage))
             @@ (size * 3 + col :> OneSided(v, n + col, col, h, size, garbage))
        ELSE IF row = m - 1
        THEN (size + n * (m - 1) + col :>
                 OneSided(u, n * (m - 1) + col, n * (m - 2) + col, h, size, garbage))
             @@ (size * 3 + n * (m - 1) + col :>
                 OneSided(v, n * (m - 1) + col, n * (m - 2) + col, h, size, garbage))
        ELSE (size + row * n + col :>
                 Central(u, (row + 1) * n + col, (row - 1) * n + col, h, size, garbage))
             @@ (size * 3 + row * n + col :>
                 Central(v, (row + 1) * n + col, (row - 1) * n + col, h, size, garbage))

\* the writes of threads i, i + 1, ..., m * n - 1 of the gradient kernel
RECURSIVE gradient_from(_, _, _, _, _, _, _)
gradient_from(i, u, v, h, m, n, garbage) ==
    IF i >= m * n THEN <<>>
    ELSE gradient_x(i, u, v, h, m, n, garbage) @@ gradient_y(i, u, v, h, m, n, garbage)
         @@ gradient_from(i + 1, u, v, h, m, n, garbage)

\* strain_d after the launch: gpuarray.empty((4, m, n)) holds garbage where no
\* thread wrote
gradient(u, v, h, m, n, garbage) ==
    gradient_from(0, u, v, h, m, n, garbage) @@ [k \in 0 .. (4 * m * n - 1) |-> garbage]

Slopes == {F(i) : i \in (-MaxSlope) .. MaxSlope}

\* spacings explored; gpu_strain asserts spacing > 0
Spacings == {F(0), Frac(1, 2), F(1), F(2)}

\* f = a * x + b * y at node (row, col) of a grid of spacing h, plus d at node p
LinearField(m, n, h, a, b, p, d) ==
    [k \in 0 .. (m * n - 1) |->
        FAdd(FAdd(FMul(a, FMul(F(k % n), h)), FMul(b, FMul(F(k \div n), h))),
             IF k = p THEN d ELSE F(0))]

StrainInit ==
    /\ grid = Idle /\ med = Idle /\ val = Idle /\ interp = Idle /\ run = Idle
    /\ \E m \in 1 .. MaxStrainDim, n \in 1 .. MaxStrainDim, h \in Spacings :
       \E a \in Slopes, b \in Slopes, p \in 0 .. (m * n - 1), d \in {F(0), F(1)} :
          strain = [pc |-> "input", m |-> m, n |-> n, spacing |-> h, a |-> a, b |-> b,
                    d |-> d,
                    u |-> LinearField(m, n, h, a, b, p, d),
                    v |-> LinearField(m, n, h, b, FNeg(a), p, FNeg(d))]

\* gpu_strain(u_d, v_d, spacing)
CallGpuStrain ==
    /\ strain.pc = "input"
    /\ IF ~FGt(strain.spacing, F(0))
       THEN strain' = [strain EXCEPT !.pc = "AssertionError"]
       ELSE \E garbage \in (IF strain.m = 1 \/ strain.n = 1 THEN {F(0), NaN} ELSE {NaN}) :
               strain' = [strain EXCEPT !.pc = "done"] @@
                         [strain_d |-> gradient(strain.u, strain.v, strain.spacing,
                                               strain.m, strain.n, garbage)]
    /\ UNCHANGED <<grid, med, val, interp, run>>

StrainNext == CallGpuStrain

SpecStrain == StrainInit /\ [][StrainNext]_vars

\* reference gradient operator on the field seen as rows and columns
At(f, row, col) == f[row * strain.n + col]

RefDx(f, row, col) ==
    LET n == strain.n
        h == strain.spacing
    IN  IF col = 0 THEN FDiv(FSub(At(f, row, 1), At(f, row, 0)), h)
        ELSE IF col = n - 1 THEN FDiv(FSub(At(f, row, n - 1), At(f, row, n - 2)), h)
        ELSE FDiv(FSub(At(f, row, col + 1), At(f, row, col - 1)), FMul(F(2), h))

RefDy(f, row, col) ==
    LET m == strain.m
        h == strain.spacing
    IN  IF row = 0 THEN FDiv(FSub(At(f, 1, col), At(f, 0, col)), h)
        ELSE IF row = m - 1 THEN FDiv(FSub(At(f, m - 1, col), At(f, m - 2, col)), h)
        ELSE FDiv(FSub(At(f, row + 1, col), At(f, row - 1, col)), FMul(F(2), h))

\* channel c (0: u_x, 1: u_y, 2: v_x, 3: v_y) of the result at (row, col)
Channel(c, row, col) == strain.strain_d[c * strain.m * strain.n + row * strain.n + col]

\* C6: for m, n >= 2 and spacing > 0 the four channels returned by gpu_strain
\* equal the reference gradient (central difference inside, one-sided at the
\* first/last column for x and first/last row for y), and for a linear field
\* u = a x + b y they are u_x = a and u_y = b at every node, edges included.
StrainIsGradient ==
    (strain.pc = "done" /\ strain.m >= 2 /\ strain.n >= 2) =>
        \A row \in 0 .. (strain.m - 1), col \in 0 .. (strain.n - 1) :
            /\ Channel(0, row, col) = RefDx(strain.u, row, col)
            /\ Channel(1, row, col) = RefDy(strain.u, row, col)
            /\ Channel(2, row, col) = RefDx(strain.v, row, col)
            /\ Channel(3, row, col) = RefDy(strain.v, row, col)
            /\ strain.d = F(0) => /\ Channel(0, row, col) = strain.a
                                  /\ Channel(1, row, col) = strain.b

\* gpu_strain returned for a field with interior nodes that is not linear
\* (one node displaced), sloped in x and y, on a spacing other than 1
StrainIsGradientWitness ==
    /\ strain.pc = "done"
    /\ strain.m >= 3 /\ strain.n >= 3
    /\ strain.d # F(0) /\ strain.a # F(0) /\ strain.b # F(0)
    /\ strain.spacing = Frac(1, 2)
    /\ \E row \in 1 .. (strain.m - 2), col \in 1 .. (strain.n - 2) :
          Channel(0, row, col) # strain.a

-----------------------------------------------------------------------------
(* Cross-iteration interpolation: gpu_interpolate_surroundings from the    *)
(* grid of iteration k = 0 onto the grid of iteration k + 1 = 1, with the  *)
(* grids and coordinate arrays PIVGPU.__init__ builds.                     *)

\* image sides explored by the interpolation specification are 8 * i,
\* i in 3..MaxInterpUnits
MaxInterpUnits == 5

\* PIVGPU.__init__ for a schedule of two window sizes ws[0], ws[1]: spacing,
\* n_row, n_col and, as _get_next_iteration_prediction and _validate_fields
\* compute it, overlap = ws - spacing
Geometry(ht, wd, ws, overlap_ratio) ==
    LET spacing == [K \in 0 .. 1 |-> PIVSpacing(ws[K], overlap_ratio)]
    IN  [w |-> ws,
         spacing |-> spacing,
         overlap |-> [K \in 0 .. 1 |-> ws[K] - spacing[K]],
         n_row |-> [K \in 0 .. 1 |-> PIVShapeDim(ht, spacing[K])],
         n_col |-> [K \in 0 .. 1 |-> PIVShapeDim(wd, spacing[K])]]

\* x[K, :, J] after the loops of __init__: spacing on column 0, the previous
\* column plus spacing on columns 1..n_col[K]-1, zero beyond
RECURSIVE XColumn(_, _, _)
XColumn(g, K, J) ==
    IF J = 0 THEN g.spacing[K]
    ELSE IF J < g.n_col[K] THEN XColumn(g, K, J - 1) + g.spacing[K]
    ELSE 0

\* y[K, I, :] after the loops of __init__
RECURSIVE YRow(_, _, _)
YRow(g, K, I) ==
    IF I = 0 THEN g.spacing[K]
    ELSE IF I < g.n_row[K] THEN YRow(g, K, I - 1) + g.spacing[K]
    ELSE 0

\* the arrays x and y of shape (2, n_row[-1], n_col[-1])
XArray(g) ==
    [K \in 0 .. 1 |-> [I \in 0 .. (g.n_row[1] - 1) |->
        [J \in 0 .. (g.n_col[1] - 1) |-> F(XColumn(g, K, J))]]]

YArray(g) ==
    [K \in 0 .. 1 |-> [I \in 0 .. (g.n_row[1] - 1) |->
        [J \in 0 .. (g.n_col[1] - 1) |-> F(YRow(g, K, I))]]]

\* one thread of f_dichotomy_x / f_dichotomy_y: range holds two rows of
\* NrowMax coordinates, pos is pos_index[w_idx]; the result is <<low, high>>
f_dichotomy(range, pos, w_a, w_b, dxa, dxb, Nrow, NrowMax, garbage) ==
    LET low0  == FFloor(FDiv(FAdd(FSub(FDiv(F(w_a), F(2)), FDiv(F(w_b), F(2))),
                                  FMul(F(pos), F(dxa))), F(dxb)))
        high0 == low0 + Bool(FNe(ReadArray(range, NrowMax + pos, 2 * NrowMax, garbage),
                                 ReadArray(range, low0, 2 * NrowMax, garbage)))
        low1  == low0 * Bool(low0 >= 0)
        high1 == high0 * Bool(low1 >= 0)
        low2  == low1 + (Nrow - 1 - low1) * Bool(high1 > Nrow - 1)
        high2 == high1 + (Nrow - 1 - high1) * Bool(high1 > Nrow - 1)
    IN  <<low2, high2>>

\* _f_dichotomy_gpu(x_d[k:k + 2, :, 0].copy(), k, "x_axis", pos, ...) for one
\* position, k = 0
DichotomyX(x, g, pos, garbage) ==
    f_dichotomy([i \in 0 .. (2 * g.n_row[1] - 1) |-> x[i \div g.n_row[1]][i % g.n_row[1]][0]],
                pos, g.w[1], g.w[0], g.w[1] - g.overlap[1], g.w[0] - g.overlap[0],
                g.n_row[0], g.n_row[1], garbage)

\* _f_dichotomy_gpu(y_d[k:k + 2, 0, :].copy(), k, "y_axis", pos, ...)
DichotomyY(y, g, pos, garbage) ==
    f_dichotomy([i \in 0 .. (2 * g.n_col[1] - 1) |-> y[i \div g.n_col[1]][0][i % g.n_col[1]]],
                pos, g.w[1], g.w[0], g.w[1] - g.overlap[1], g.w[0] - g.overlap[0],
                g.n_col[0], g.n_col[1], garbage)

\* (float)(cond)
Flt(c) == F(Bool(c))

\* one thread of the bilinear_interp kernel
bilinear_interp(x1, x2, y1, y2, x, y, f1, f2, f3, f4) ==
    LET n1a == FMul(FMul(f1, FSub(x2, x)), FSub(y2, y))
        n1b == FAdd(FMul(n1a, Flt(FNe(y1, y2))), FMul(FMul(f1, Flt(FEq(y1, y2))), FSub(x2, x)))
        n1c == FAdd(FMul(n1b, Flt(FNe(x1, x2))), FMul(FMul(f1, Flt(FEq(x1, x2))), FSub(y2, y)))
        n1  == FAdd(FMul(n1c, Flt(FNe(y1, y2) \/ FNe(x1, x2))),
                    FMul(f1, Flt(FEq(y1, y2) /\ FEq(x1, x2))))
        n2a == FMul(FMul(f2, FSub(x2, x)), FSub(y, y1))
        n2b == FAdd(FMul(n2a, Flt(FNe(x1, x2))), FMul(FMul(f2, Flt(FEq(x1, x2))), FSub(y, y1)))
        n2  == FMul(n2b, Flt(FNe(y1, y2)))
        n3a == FMul(FMul(f3, FSub(x, x1)), FSub(y2, y))
        n3b == FAdd(FMul(n3a, Flt(FNe(y1, y2))), FMul(FMul(f3, Flt(FEq(y1, y2))), FSub(x, x1)))
        n3  == FMul(FMul(n3b, Flt(FNe(x1, x2))), Flt(FNe(x1, x2)))
        n4a == FMul(FMul(f4, FSub(x, x1)), FSub(y, y1))
        n4  == FMul(FMul(n4a, Flt(FNe(y1, y2))), Flt(FNe(x1, x2)))
        numerator == FAdd(FAdd(FAdd(n1, n2), n3), n4)
        d0 == FMul(FSub(x2, x1), FSub(y2, y1))
        d1 == FAdd(FMul(d0, Flt(FNe(x1, x2))), FMul(FSub(y2, y1), Flt(FEq(x1, x2))))
        d2 == FAdd(FMul(d1, Flt(FNe(y1, y2))), FMul(FSub(x2, x1), Flt(FEq(y1, y2))))
        denominator == FAdd(FMul(d2, Flt(FNe(y1, y2) \/ FNe(x1, x2))),
                            FMul(F(1), Flt(FEq(y1, y2) /\ FEq(x1, x2))))
    IN  FDiv(numerator, denominator)

\* one thread of the linear_interp kernel
linear_interp(x1, x2, x, f1, f2) ==
    LET tmp == FAdd(FMul(FDiv(FSub(x2, x), FSub(x2, x1)), f1),
                    FMul(FDiv(FSub(x, x1), FSub(x2, x1)), f2))
    IN  FAdd(FMul(tmp, Flt(FNe(x2, x1))), FMul(f1, Flt(FEq(x2, x1))))

\* the value gpu_interpolate_surroundings computes for the interior node
\* (r, c) of the new grid; f_d is the field on the grid of iteration 0
InteriorValue(x, y, f_d, g, r, c, garbage) ==
    LET lx == DichotomyX(x, g, r, garbage)
        ly == DichotomyY(y, g, c, garbage)
        xk == [i \in 0 .. (g.n_row[0] - 1) |-> x[0][i][0]]
        yk == [j \in 0 .. (g.n_col[0] - 1) |-> y[0][0][j]]
        size == g.n_row[0] * g.n_col[0]
        f == [i \in 0 .. (size - 1) |-> f_d[i \div g.n_col[0]][i % g.n_col[0]]]
    IN  bilinear_interp(ReadArray(xk, lx[1], g.n_row[0], garbage),
                        ReadArray(xk, lx[2], g.n_row[0], garbage),
                        ReadArray(yk, ly[1], g.n_col[0], garbage),
                        ReadArray(yk, ly[2], g.n_col[0], garbage),
                        x[1][r][0], y[1][0][c],
                        ReadArray(f, lx[1] * g.n_col[0] + ly[1], size, garbage),
                        ReadArray(f, lx[1] * g.n_col[0] + ly[2], size, garbage),
                        ReadArray(f, lx[2] * g.n_col[0] + ly[1], size, garbage),
                        ReadArray(f, lx[2] * g.n_col[0] + ly[2], size, garbage))

\* the value computed for column c of the top (row = 0) or bottom
\* (row = n_row[0] - 1 of the old grid, new_row of the new grid) side
RowSideValue(y, f_d, g, row, new_row, c, garbage) ==
    LET ly == DichotomyY(y, g, c, garbage)
        yk == [j \in 0 .. (g.n_col[1] - 1) |-> y[0][row][j]]
        f == [j \in 0 .. (g.n_col[0] - 1) |-> f_d[row][j]]
    IN  linear_interp(ReadArray(yk, ly[1], g.n_col[1], garbage),
                      ReadArray(yk, ly[2], g.n_col[1], garbage),
                      y[1][new_row][c],
                      ReadArray(f, ly[1], g.n_col[0], garbage),
                      ReadArray(f, ly[2], g.n_col[0], garbage))

\* the value computed for row r of the left (col = 0) or right
\* (col = n_col[0] - 1 of the old grid, new_col of the new grid) side
ColSideValue(x, f_d, g, col, new_col, r, garbage) ==
    LET lx == DichotomyX(x, g, r, garbage)
        xk == [i \in 0 .. (g.n_row[1] - 1) |-> x[0][i][col]]
        f == [i \in 0 .. (g.n_row[0] - 1) |-> f_d[i][col]]
    IN  linear_interp(ReadArray(xk, lx[1], g.n_row[1], garbage),
                      ReadArray(xk, lx[2], g.n_row[1], garbage),
                      x[1][r][new_col],
                      ReadArray(f, lx[1], g.n_row[0], garbage),
                      ReadArray(f, lx[2], g.n_row[0], garbage))

\* f_new_d[r, c] when gpu_interpolate_surroundings returns: the statements run
\* in the order interior, top, bottom, left, right, corners, so the last one
\* that writes the node decides
gpu_interpolate_surroundings(x, y, f_d, f_new_d, v_list, g, r, c, garbage) ==
    LET nr == g.n_row[1]
        nc == g.n_col[1]
        lastRow == g.n_row[0] - 1
        lastCol == g.n_col[0] - 1
        innerRow == r # 0 /\ r # nr - 1
        innerCol == c # 0 /\ c # nc - 1
    IN  IF r = nr - 1 /\ c = nc - 1 /\ v_list[nr - 1][nc - 1] THEN f_d[lastRow][lastCol]
        ELSE IF r = nr - 1 /\ c = 0 /\ v_list[nr - 1][0] THEN f_d[lastRow][0]
        ELSE IF r = 0 /\ c = nc - 1 /\ v_list[0][nc - 1] THEN f_d[0][lastCol]
        ELSE IF r = 0 /\ c = 0 /\ v_list[0][0] THEN f_d[0][0]
        ELSE IF c = nc - 1 /\ innerRow /\ v_list[r][nc - 1]
             THEN ColSideValue(x, f_d, g, lastCol, nc - 1, r, garbage)
        ELSE IF c = 0 /\ innerRow /\ v_list[r][0]
             THEN ColSideValue(x, f_d, g, 0, 0, r, garbage)
        ELSE IF r = nr - 1 /\ innerCol /\ v_list[nr - 1][c]
             THEN RowSideValue(y, f_d, g, lastRow, nr - 1, c, garbage)
        ELSE IF r = 0 /\ innerCol /\ v_list[0][c]
             THEN RowSideValue(y, f_d, g, 0, 0, c, garbage)
        ELSE IF innerRow /\ innerCol /\ v_list[r][c]
             THEN InteriorValue(x, y, f_d, g, r, c, garbage)
        ELSE f_new_d[r][c]

\* which nodes the explored v_list selects
VListPatterns == {"all", "interior", "sides", "corners", "none"}

VList(pattern, nr, nc) ==
    [r \in 0 .. (nr - 1) |-> [c \in 0 .. (nc - 1) |->
        LET rowEdge == r = 0 \/ r = nr - 1
            colEdge == c = 0 \/ c = nc - 1
        IN  CASE pattern = "all" -> TRUE
              [] pattern = "interior" -> ~rowEdge /\ ~colEdge
              [] pattern = "sides" -> (rowEdge \/ colEdge) /\ ~(rowEdge /\ colEdge)
              [] pattern = "corners" -> rowEdge /\ colEdge
              [] pattern = "none" -> FALSE]]

\* the field c0 + a * x + b * y sampled on the grid of iteration 0
SampledField(x, y, g, c0, a, b) ==
    [I \in 0 .. (g.n_row[0] - 1) |-> [J \in 0 .. (g.n_col[0] - 1) |->
        FAdd(c0, FAdd(FMul(a, x[0][I][J]), FMul(b, y[0][I][J])))]]

InterpSides == {8 * i : i \in 3 .. MaxInterpUnits}

InterpInit ==
    /\ grid = Idle /\ med = Idle /\ val = Idle /\ strain = Idle /\ run = Idle
    /\ \E ht \in InterpSides, wd \in InterpSides, r \in {Frac(1, 2), Frac(1, 4)} :
       \E c0 \in {F(0), F(1)}, a \in Slopes, b \in Slopes, pattern \in VListPatterns :
          LET g == Geometry(ht, wd, [K \in 0 .. 1 |-> IF K = 0 THEN 16 ELSE 8], r)
          IN  interp = [pc |-> "input", frame_shape |-> <<ht, wd>>, overlap_ratio |-> r,
                        g |-> g, c0 |-> c0, a |-> a, b |-> b, pattern |-> pattern,
                        f_d |-> SampledField(XArray(g), YArray(g), g, c0, a, b),
                        v_list |-> VList(pattern, g.n_row[1], g.n_col[1])]

\* gpu_interpolate_surroundings(x_d, y_d, f_d, f_new_d, v_list, n_row, n_col, w,
\* overlap, k = 0) with f_new_d = zeros((n_row[1], n_col[1]))
CallInterpolateSurroundings ==
    /\ interp.pc = "input"
    /\ \E garbage \in {F(0), NaN} :
          interp' = [interp EXCEPT !.pc = "done"] @@
                    [f_new_d |->
                        [r \in 0 .. (interp.g.n_row[1] - 1) |->
                            [c \in 0 .. (interp.g.n_col[1] - 1) |->
                                gpu_interpolate_surroundings(
                                    XArray(interp.g), YArray(interp.g), interp.f_d,
                                    [i \in 0 .. (interp.g.n_row[1] - 1) |->
                                        [j \in 0 .. (interp.g.n_col[1] - 1) |-> F(0)]],
                                    interp.v_list, interp.g, r, c, garbage)]]]
    /\ UNCHANGED <<grid, med, val, strain, run>>

InterpNext == CallInterpolateSurroundings

SpecInterp == InterpInit /\ [][InterpNext]_vars

InterpDone == interp.pc = "done"

NewRows == 0 .. (interp.g.n_row[1] - 1)

NewCols == 0 .. (interp.g.n_col[1] - 1)

\* C7: interpolating a constant field from the grid of iteration k onto the
\* finer grid of iteration k + 1 with every node selected yields the same
\* constant at every node of the new grid: interior, edges and corners.
ConstantFieldReproduced ==
    (InterpDone /\ interp.a = F(0) /\ interp.b = F(0) /\ interp.pattern = "all") =>
        \A r \in NewRows, c \in NewCols : interp.f_new_d[r][c] = interp.c0

\* pixel coordinates of the nodes: x of column J and y of row I on grid K
NodeX(K, J) == XColumn(interp.g, K, J)

NodeY(K, I) == YRow(interp.g, K, I)

\* the old-grid columns (rows) on either side of a pixel coordinate
ColsAtMost(t) == {J \in 0 .. (interp.g.n_col[0] - 1) : NodeX(0, J) <= t}

ColsAtLeast(t) == {J \in 0 .. (interp.g.n_col[0] - 1) : NodeX(0, J) >= t}

RowsAtMost(t) == {I \in 0 .. (interp.g.n_row[0] - 1) : NodeY(0, I) <= t}

RowsAtLeast(t) == {I \in 0 .. (interp.g.n_row[0] - 1) : NodeY(0, I) >= t}

MaxOf(S) == CHOOSE i \in S : \A j \in S : j <= i

MinOf(S) == CHOOSE i \in S : \A j \in S : i <= j

\* the new node (r, c) lies between old-grid nodes on both axes
Surrounded(r, c) ==
    /\ ColsAtMost(NodeX(1, c)) # {} /\ ColsAtLeast(NodeX(1, c)) # {}
    /\ RowsAtMost(NodeY(1, r)) # {} /\ RowsAtLeast(NodeY(1, r)) # {}

\* linear interpolation between (t1, v1) and (t2, v2), a single sample when
\* the two coincide
Lerp(t, t1, t2, v1, v2) ==
    IF t1 = t2 THEN v1
    ELSE FAdd(v1, FMul(FSub(v2, v1), Frac(t - t1, t2 - t1)))

\* bilinear interpolation of the old field at the pixel coordinate of (r, c)
RefBilinear(r, c) ==
    LET x == NodeX(1, c)
        y == NodeY(1, r)
        J1 == MaxOf(ColsAtMost(x))
        J2 == MinOf(ColsAtLeast(x))
        I1 == MaxOf(RowsAtMost(y))
        I2 == MinOf(RowsAtLeast(y))
        top == Lerp(x, NodeX(0, J1), NodeX(0, J2), interp.f_d[I1][J1], interp.f_d[I1][J2])
        bot == Lerp(x, NodeX(0, J1), NodeX(0, J2), interp.f_d[I2][J1], interp.f_d[I2][J2])
    IN  Lerp(y, NodeY(0, I1), NodeY(0, I2), top, bot)

InteriorSelected(r, c) ==
    /\ r \in 1 .. (interp.g.n_row[1] - 2)
    /\ c \in 1 .. (interp.g.n_col[1] - 2)
    /\ interp.v_list[r][c]

\* C8: at every selected interior node of the new grid that old-grid nodes
\* surround, the value written is the bilinear interpolation of the old field
\* at the node's pixel coordinate, so a field linear in the pixel coordinates
\* is reproduced exactly there.
InteriorIsBilinear ==
    InterpDone =>
        \A r \in NewRows, c \in NewCols :
            (InteriorSelected(r, c) /\ Surrounded(r, c)) =>
                /\ interp.f_new_d[r][c] = RefBilinear(r, c)
                /\ interp.f_new_d[r][c] =
                       FAdd(interp.c0, FAdd(FMul(interp.a, F(NodeX(1, c))),
                                            FMul(interp.b, F(NodeY(1, r)))))

\* what the code does at a selected interior node: it copies the old-grid
\* sample at the bracket's lower indices
InteriorIsLowerSample ==
    InterpDone =>
        \A r \in NewRows, c \in NewCols :
            (InteriorSelected(r, c) /\ Surrounded(r, c)) =>
                interp.f_new_d[r][c] =
                    interp.f_d[DichotomyX(XArray(interp.g), interp.g, r, NaN)[1]]
                              [DichotomyY(YArray(interp.g), interp.g, c, NaN)[1]]

\* what the code does on the four sides: every selected non-corner edge node
\* becomes NaN
SidesAreNaN ==
    InterpDone =>
        \A r \in NewRows, c \in NewCols :
            LET rowEdge == r = 0 \/ r = interp.g.n_row[1] - 1
                colEdge == c = 0 \/ c = interp.g.n_col[1] - 1
            IN  (interp.v_list[r][c] /\ (rowEdge \/ colEdge) /\ ~(rowEdge /\ colEdge)) =>
                    IsNaN(interp.f_new_d[r][c])
-----------------------------------------------------------------------------
(* The multi-pass run: gpu_piv and PIVGPU.                                 *)

\* the displacement of frame B in the known-shift pair of test_gpu_piv_fast
ShiftDx == 8

ShiftDy == -4

\* the number of parameters of gpu_validation(u_d, v_d, sig2noise_d,
\* validation_method, s2n_tol, median_tol, mean_tol, rms_tol)
GpuValidationParams == 8

\* None
NoField == <<>>

\* a str is represented by its text, a tuple by its items
Str(text) == [type |-> "str", text |-> text]

Tuple(items) == [type |-> "tuple", items |-> items]

\* name in val_methods, where val_methods is validation_method itself when it
\* is a str (a substring test; every explored text is a method name or holds
\* none) and the 1-tuple (validation_method,) otherwise (an element test: the
\* element is a tuple and equals no name)
InValMethods(name, validation_method) ==
    validation_method.type = "str" /\ validation_method.text = name

\* kwargs[key] if key in kwargs else the default
KwargOr(kwargs, key, default) ==
    IF key \in DOMAIN kwargs THEN kwargs[key] ELSE default

\* self.val_tols after PIVGPU.__init__: [s2n, median, mean, rms]
ValTols(validation_method, kwargs) ==
    <<IF InValMethods("s2n", validation_method)
         THEN KwargOr(kwargs, "s2n_tol", Frac(6, 5)) ELSE NoneTol,
      IF InValMethods("median_velocity", validation_method)
         THEN KwargOr(kwargs, "median_tol", F(2)) ELSE NoneTol,
      IF InValMethods("mean_velocity", validation_method)
         THEN KwargOr(kwargs, "mean_tol", F(2)) ELSE NoneTol,
      IF InValMethods("rms_velocity", validation_method)
         THEN KwargOr(kwargs, "rms_tol", F(2)) ELSE NoneTol>>

RECURSIVE SumFirst(_, _)
SumFirst(s, n) == IF n = 0 THEN 0 ELSE SumFirst(s, n - 1) + s[n]

RECURSIVE Pow2(_)
Pow2(e) == IF e = 0 THEN 1 ELSE 2 * Pow2(e - 1)

\* self.ws: 2^(num_ws - i - 1) * min_window_size, repeated ws_iters[i] times,
\* for i = 0 .. num_ws - 1 (the tuple ws_iters is indexed from 1 here)
WindowSchedule(ws_iters, min_window_size) ==
    LET num_ws == Len(ws_iters)
    IN  [K \in 0 .. (SumFirst(ws_iters, num_ws) - 1) |->
            LET i == CHOOSE j \in 1 .. num_ws :
                        SumFirst(ws_iters, j - 1) <= K /\ K < SumFirst(ws_iters, j)
            IN  Pow2(num_ws - i) * min_window_size]

\* the last index of an array indexed from 0
Last(a) == Cardinality(DOMAIN a) - 1

\* a field of the given shape holding one value
Full(n_row, n_col, value) ==
    [r \in 0 .. (n_row - 1) |-> [c \in 0 .. (n_col - 1) |-> value]]

\* the C-order flattening of a 2D array
Flat(f, n_row, n_col) ==
    [i \in 0 .. (n_row * n_col - 1) |-> f[i \div n_col][i % n_col]]

FrameKinds == {"zero", "shifted"}

FrameShapes == {<<32, 32>>, <<48, 48>>}

WindowSizeIters == {<<1>>, <<1, 1>>, <<1, 2>>}

MinWindowSizes == {2, 12, 16}

OverlapRatios == {F(0), Frac(1, 2), Frac(3, 2)}

ValidationMethodArgs == {Str("median_velocity"), Str("foo")}

\* no tolerance keyword, or median_tol given
KwargsArgs == {<<>>, [median_tol |-> F(-1)]}

\* the image masks: none, or an array of the frame's shape holding 0 on its
\* left third, on its central third in both directions, or everywhere
MaskArgs == {"None", "left", "centre", "zeros"}

\* mask[y, x]
MaskPixel(mask, frame_shape, y, x) ==
    LET ht == frame_shape[1]
        wd == frame_shape[2]
    IN  IF mask = "left" THEN (IF 3 * x < wd THEN 0 ELSE 1)
        ELSE IF mask = "centre"
        THEN (IF wd <= 3 * x /\ 3 * x < 2 * wd /\ ht <= 3 * y /\ 3 * y < 2 * ht
              THEN 0 ELSE 1)
        ELSE 0

\* x[K, r, c] of PIVGPU.__init__ (and y[K, c, r]): the array has the shape of
\* the last grid; column 0 holds the spacing, column J < n[K] the spacing more
\* than column J - 1, and the columns from n[K] on are left at 0
NodeCoord(spacing, n, J) ==
    IF J = 0 THEN spacing ELSE IF J < n THEN spacing * (J + 1) ELSE 0

\* mask_array of PIVGPU.__init__: the image mask sampled at (y_idx, x_idx) for
\* each iteration, and 1 everywhere without a mask
MaskArray(mask, frame_shape, spacing, n_row, n_col) ==
    [K \in DOMAIN spacing |->
        [r \in 0 .. (n_row[Last(n_row)] - 1) |->
            [c \in 0 .. (n_col[Last(n_col)] - 1) |->
                IF mask = "None" THEN F(1)
                ELSE F(MaskPixel(mask, frame_shape,
                                 NodeCoord(spacing[K], n_row[K], r),
                                 NodeCoord(spacing[K], n_col[K], c)))]]]

\* the arguments of gpu_piv; mask = None, dt = 1, deform = True and no
\* extend_ratio or nfft_x throughout
RunInit ==
    /\ grid = Idle /\ med = Idle /\ val = Idle /\ strain = Idle /\ interp = Idle
    /\ \E frames \in FrameKinds, frame_shape \in FrameShapes,
          window_size_iters \in WindowSizeIters, min_window_size \in MinWindowSizes,
          overlap_ratio \in OverlapRatios, nb_validation_iter \in {0, 1},
          validation_method \in ValidationMethodArgs, kwargs \in KwargsArgs,
          trust_1st_iter \in BOOLEAN, smooth \in BOOLEAN :
          run = [pc |-> "args",
                 args |-> [frames |-> frames, frame_shape |-> frame_shape,
                           window_size_iters |-> window_size_iters,
                           min_window_size |-> min_window_size,
                           overlap_ratio |-> overlap_ratio,
                           nb_validation_iter |-> nb_validation_iter,
                           validation_method |-> validation_method,
                           kwargs |-> kwargs,
                           trust_1st_iter |-> trust_1st_iter,
                           smooth |-> smooth,
                           mask |-> "None", dt |-> F(1)],
                 ws |-> NoField, val_tols |-> NoField, spacing |-> NoField,
                 n_row |-> NoField, n_col |-> NoField,
                 mask_d |-> NoField, mask |-> NoField, replaced |-> NoField,
                 k |-> 0, transfers |-> 0, correlations |-> 0,
                 calls |-> 1, previous |-> NoField, smoothn |-> <<>>,
                 error |-> "none", raised_in |-> "none",
                 i_peak |-> NoField, j_peak |-> NoField,
                 u_d |-> NoField, v_d |-> NoField,
                 dp_x_d |-> NoField, dp_y_d |-> NoField,
                 u |-> NoField, v |-> NoField]

\* the run ends with an exception raised in the named method
Raise(error, method) ==
    [run EXCEPT !.pc = "raised", !.error = error, !.raised_in = method]

\* PIVGPU.__init__: the window sizes, the tolerances and the grids are
\* computed; np.zeros raises ValueError on a negative dimension; x, y and
\* mask_array are moved to the device
Construct ==
    /\ run.pc = "args"
    /\ LET a == run.args
           ws == WindowSchedule(a.window_size_iters, a.min_window_size)
           spacing == [K \in DOMAIN ws |-> PIVSpacing(ws[K], a.overlap_ratio)]
           n_row == [K \in DOMAIN ws |-> PIVShapeDim(a.frame_shape[1], spacing[K])]
           n_col == [K \in DOMAIN ws |-> PIVShapeDim(a.frame_shape[2], spacing[K])]
       IN  run' = IF n_row[Last(ws)] < 0 \/ n_col[Last(ws)] < 0
                  THEN Raise("ValueError", "__init__")
                  ELSE [run EXCEPT !.pc = "call", !.ws = ws,
                                   !.val_tols = ValTols(a.validation_method, a.kwargs),
                                   !.spacing = spacing, !.n_row = n_row, !.n_col = n_col,
                                   !.mask_d = MaskArray(a.mask, a.frame_shape,
                                                        spacing, n_row, n_col),
                                   !.mask = MaskArray(a.mask, a.frame_shape, spacing,
                                                      n_row, n_col)[Last(ws)],
                                   !.transfers = 3]
    /\ UNCHANGED <<grid, med, val, strain, interp>>

\* the number of times the object is called on the frame pair
MaxCalls == 2

\* a call that starts from the fields and predictors the call before left
EnterCallKeepingFields(r) == r

\* the locals of PIVGPU.__call__ start as None
EnterCall(r) ==
    [r EXCEPT !.u_d = NoField, !.v_d = NoField, !.dp_x_d = NoField, !.dp_y_d = NoField]

\* PIVGPU.__call__ up to the main loop: _mask_image moves both frames to the
\* device and the correlation object is created
MaskImage ==
    /\ run.pc = "call"
    /\ run' = [EnterCall(run) EXCEPT !.pc = "correlate", !.k = 0, !.transfers = @ + 2]
    /\ UNCHANGED <<grid, med, val, strain, interp>>

\* GPUCorrelation._find_peak for one window: <<row, col>> of the maximum, and
\* the centre of the map when the maximum is below 0.1
find_peak(maximum, max_idx, fft_size) ==
    IF FLt(maximum, Frac(1, 10)) THEN <<fft_size \div 2, fft_size \div 2>>
    ELSE <<max_idx \div fft_size, max_idx % fft_size>>

\* row_sp - fft_size / 2 (and col_sp - fft_size / 2) for a window whose
\* correlation map holds c at every entry: np.argmax returns index 0, and
\* after c[c <= 0] = small the five samples of _subpixel_peak_location are
\* equal, so their logarithms cancel unless they are NaN
UniformMapPeak(c, fft_size) ==
    LET row == find_peak(c, 0, fft_size)[1]
        non_zero == Flt(FGt(c, F(0)))
        log_ratio == IF IsNaN(c) THEN NaN ELSE F(0)
    IN  FSub(FAdd(F(row), FMul(log_ratio, non_zero)), FDiv(F(fft_size), F(2)))

\* the shift and, from gpu_strain, the four strain components of window i at
\* iteration k > 0 are all finite
WindowFinite(dp_x, dp_y, spacing, n_row, n_col, i) ==
    LET u == Flat(dp_x, n_row, n_col)
        v == Flat(dp_y, n_row, n_col)
        strain_d == gradient_x(i, u, v, F(spacing), n_row, n_col, NaN)
                    @@ gradient_y(i, u, v, F(spacing), n_row, n_col, NaN)
    IN  /\ IsFinite(u[i]) /\ IsFinite(v[i])
        /\ \A j \in DOMAIN strain_d : IsFinite(strain_d[j])

\* <<i_peak, j_peak>> of window i. The pixels of a window cut by window_slice
\* (k = 0) are those of the frame; those cut by window_slice_deform are
\* weighted sums of four frame pixels, NaN when the shift or the strain is
\* not finite because the weights then are. The windows of all-zero frames
\* hold 0 or NaN throughout and so do their correlation maps. The image
\* content of the shifted pair is not represented: its correlation peak is
\* taken at the displacement left after the shift applied to the windows.
WindowPeak(frames, k, dp_x, dp_y, spacing, n_row, n_col, ws, i) ==
    LET finite == k = 0 \/ WindowFinite(dp_x, dp_y, spacing, n_row, n_col, i)
        fft_size == ws * 2
    IN  IF ~finite THEN <<UniformMapPeak(NaN, fft_size), UniformMapPeak(NaN, fft_size)>>
        ELSE IF frames = "zero"
        THEN <<UniformMapPeak(F(0), fft_size), UniformMapPeak(F(0), fft_size)>>
        ELSE IF k = 0 THEN <<F(ShiftDy), F(ShiftDx)>>
        ELSE <<FSub(F(ShiftDy), dp_y[i \div n_col][i % n_col]),
               FSub(F(ShiftDx), dp_x[i \div n_col][i % n_col])>>

\* the main loop up to self.corr(...): for k > 0 _get_corr_arguments, whose
\* gpu_strain asserts spacing > 0; then GPUCorrelation.__call__, with its two
\* assertions on the window size and those of get_field_shape, which for the
\* overlap ratio 1/2 returns (n_row[k], n_col[k])
Correlate ==
    /\ run.pc = "correlate"
    /\ LET k == run.k
           n_row == run.n_row[k]
           n_col == run.n_col[k]
           peak(r, c) == WindowPeak(run.args.frames, k, run.dp_x_d, run.dp_y_d,
                                    run.spacing[k], n_row, n_col, run.ws[k],
                                    r * n_col + c)
       IN  run' = IF k > 0 /\ run.spacing[k] <= 0
                  THEN Raise("AssertionError", "__call__")
                  ELSE IF ~FieldArgsValid(run.ws[k], run.args.overlap_ratio)
                  THEN Raise("AssertionError", "__call__")
                  ELSE [run EXCEPT !.pc = "update", !.correlations = @ + 1,
                           !.i_peak = [r \in 0 .. (n_row - 1) |->
                                          [c \in 0 .. (n_col - 1) |-> peak(r, c)[1]]],
                           !.j_peak = [r \in 0 .. (n_row - 1) |->
                                          [c \in 0 .. (n_col - 1) |-> peak(r, c)[2]]]]
    /\ UNCHANGED <<grid, med, val, strain, interp>>

\* one thread of the update_values kernel
update_values(f_old, peak, mask) == FMul(FAdd(f_old, peak), mask)

\* _update_values: the predictor is zero when dp_x_d is None, as it is on the
\* first iteration; the mask is mask_d[k, :n_row[k], :n_col[k]]
UpdateValues ==
    /\ run.pc = "update"
    /\ LET k == run.k
           n_row == run.n_row[k]
           n_col == run.n_col[k]
           dp_x_d == IF run.dp_x_d = NoField THEN Full(n_row, n_col, F(0))
                     ELSE run.dp_x_d
           dp_y_d == IF run.dp_y_d = NoField THEN Full(n_row, n_col, F(0))
                     ELSE run.dp_y_d
       IN  run' = [run EXCEPT !.pc = "validate",
                      !.u_d = [r \in 0 .. (n_row - 1) |-> [c \in 0 .. (n_col - 1) |->
                                  update_values(dp_x_d[r][c], run.j_peak[r][c],
                                                run.mask_d[k][r][c])]],
                      !.v_d = [r \in 0 .. (n_row - 1) |-> [c \in 0 .. (n_col - 1) |->
                                  update_values(dp_y_d[r][c], run.i_peak[r][c],
                                                run.mask_d[k][r][c])]]]
    /\ UNCHANGED <<grid, med, val, strain, interp>>

\* the VALIDATION step of the main loop: skipped on a trusted first iteration;
\* otherwise _validate_fields, each of whose nb_validation_iter rounds calls
\* gpu_validation with six positional arguments followed by the four
\* elements of self.val_tols. replaced marks the nodes whose vector this
\* iteration's validation has replaced: none when no round is run
ValidateFields ==
    /\ run.pc = "validate"
    /\ LET none == Full(run.n_row[run.k], run.n_col[run.k], FALSE)
       IN  run' = IF run.k = 0 /\ run.args.trust_1st_iter
                  THEN [run EXCEPT !.pc = "next", !.replaced = none]
                  ELSE IF run.args.nb_validation_iter > 0
                          /\ 6 + Len(run.val_tols) > GpuValidationParams
                  THEN Raise("TypeError", "__call__")
                  ELSE [run EXCEPT !.pc = "next", !.replaced = none]
    /\ UNCHANGED <<grid, med, val, strain, interp>>

\* the sum and the number of the finite nodes among the first n of a
\* flattened field
RECURSIVE FiniteSum(_, _)
FiniteSum(f, n) ==
    IF n = 0 THEN <<F(0), 0>>
    ELSE LET rest == FiniteSum(f, n - 1)
         IN  IF IsFinite(f[n - 1]) THEN <<FAdd(rest[1], f[n - 1]), rest[2] + 1>>
             ELSE rest

\* gpu_smooth(f_d, s). The smoother smoothn is outside these sources and is
\* treated as opaque. Two of its outcomes are explored: the field comes back
\* as it is, or with each non-finite node filled with the mean of the finite
\* ones
gpu_smooth(f_d, n_row, n_col, filled) ==
    LET total == FiniteSum(Flat(f_d, n_row, n_col), n_row * n_col)
        mean == FDiv(total[1], F(total[2]))
    IN  [r \in 0 .. (n_row - 1) |-> [c \in 0 .. (n_col - 1) |->
            IF filled /\ ~IsFinite(f_d[r][c]) THEN mean ELSE f_d[r][c]]]

\* gpu_interpolate_surroundings(x_d, y_d, f_d, zeros, v_list, ...) of
\* _get_next_iteration_prediction with every node of v_list selected; in the
\* explored schedules the grid of iteration k + 1 is the last one, so x_d and
\* y_d have n_row[k + 1] rows and n_col[k + 1] columns
InterpolatedField(f_d, g, garbage) ==
    [r \in 0 .. (g.n_row[1] - 1) |->
        [c \in 0 .. (g.n_col[1] - 1) |->
            gpu_interpolate_surroundings(XArray(g), YArray(g), f_d,
                                         Full(g.n_row[1], g.n_col[1], F(0)),
                                         VList("all", g.n_row[1], g.n_col[1]),
                                         g, r, c, garbage)] @@ <<>>] @@ <<>>

\* _get_next_iteration_prediction, first part: when the next window size
\* differs, u_d and v_d are interpolated onto the grid of iteration k + 1
Interpolate ==
    /\ run.pc = "next"
    /\ run.k < Last(run.ws)
    /\ \E garbage \in {F(0), NaN} :
          LET k == run.k
              g == Geometry(run.args.frame_shape[1], run.args.frame_shape[2],
                            [K \in 0 .. 1 |-> run.ws[k + K]], run.args.overlap_ratio)
          IN  run' = IF run.ws[k + 1] # run.ws[k]
                     THEN [run EXCEPT !.pc = "smooth",
                              !.dp_x_d = InterpolatedField(run.u_d, g, garbage),
                              !.dp_y_d = InterpolatedField(run.v_d, g, garbage)]
                     ELSE [run EXCEPT !.pc = "smooth",
                              !.dp_x_d = run.u_d, !.dp_y_d = run.v_d]
    /\ UNCHANGED <<grid, med, val, strain, interp>>

\* the field holds a node that is not finite
HasNonFinite(f_d) == \E r \in DOMAIN f_d : \E c \in DOMAIN f_d[r] : ~IsFinite(f_d[r][c])

\* _get_next_iteration_prediction, second part: the predictor is the
\* smoothed field, or a copy of the field; the loop goes to iteration k + 1.
\* The smoother is a function of its input: which of its two outcomes it gave
\* at iteration k, where they differ, is kept in smoothn and given again by
\* a later call
Smooth ==
    /\ run.pc = "smooth"
    /\ LET n_row == run.n_row[run.k + 1]
           n_col == run.n_col[run.k + 1]
           differ == HasNonFinite(run.dp_x_d) \/ HasNonFinite(run.dp_y_d)
       IN  IF run.args.smooth
           THEN \E filled \in (IF run.k \in DOMAIN run.smoothn
                               THEN {run.smoothn[run.k]} ELSE BOOLEAN) :
                   run' = [run EXCEPT !.pc = "correlate", !.k = @ + 1,
                              !.dp_x_d = gpu_smooth(run.dp_x_d, n_row, n_col, filled),
                              !.dp_y_d = gpu_smooth(run.dp_y_d, n_row, n_col, filled),
                              !.smoothn = IF differ THEN (run.k :> filled) @@ @ ELSE @]
           ELSE run' = [run EXCEPT !.pc = "correlate", !.k = @ + 1]
    /\ UNCHANGED <<grid, med, val, strain, interp>>

\* v_last_d / self.dt, without the negation
ReturnedVSameSign(v_last_d, dt) == FDiv(v_last_d, dt)

\* u = u_last_d / self.dt
ReturnedU(u_last_d, dt) == FDiv(u_last_d, dt)

\* v = v_last_d / -self.dt
ReturnedV(v_last_d, dt) == FDiv(v_last_d, FNeg(dt))

\* after the last iteration: u = u_d / dt, v = v_d / -dt
Return ==
    /\ run.pc = "next"
    /\ run.k = Last(run.ws)
    /\ LET n_row == run.n_row[run.k]
           n_col == run.n_col[run.k]
       IN  run' = [run EXCEPT !.pc = "returned",
                      !.u = [r \in 0 .. (n_row - 1) |-> [c \in 0 .. (n_col - 1) |->
                                ReturnedU(run.u_d[r][c], run.args.dt)]],
                      !.v = [r \in 0 .. (n_row - 1) |-> [c \in 0 .. (n_col - 1) |->
                                ReturnedV(run.v_d[r][c], run.args.dt)]]]
    /\ UNCHANGED <<grid, med, val, strain, interp>>

\* the object is called again on the same frame pair; what the call before
\* returned is kept for comparison
CallAgain ==
    /\ run.pc = "returned"
    /\ run.calls < MaxCalls
    /\ run' = [run EXCEPT !.pc = "call", !.calls = @ + 1,
                          !.previous = [u |-> run.u, v |-> run.v],
                          !.u = NoField, !.v = NoField]
    /\ UNCHANGED <<grid, med, val, strain, interp>>

RunNext ==
    \/ Construct
    \/ MaskImage
    \/ Correlate
    \/ UpdateValues
    \/ ValidateFields
    \/ Interpolate
    \/ Smooth
    \/ Return

SpecRun == RunInit /\ [][RunNext]_vars

RunFinished == run.pc \in {"returned", "raised"}

\* the sum over the nodes i, i + 1, ... of the field, trimmed of its two
\* outermost rows and columns, of (sign * f - target)^2
RECURSIVE TrimmedSquares(_, _, _, _, _, _)
TrimmedSquares(f, sign, target, n_row, n_col, i) ==
    IF i >= n_row * n_col THEN F(0)
    ELSE LET r == i \div n_col
             c == i % n_col
             d == FSub(FMul(F(sign), f[r][c]), F(target))
             rest == TrimmedSquares(f, sign, target, n_row, n_col, i + 1)
         IN  IF r >= 2 /\ r < n_row - 2 /\ c >= 2 /\ c < n_col - 2
             THEN FAdd(FMul(d, d), rest)
             ELSE rest

\* np.linalg.norm(sign * f[2:-2, 2:-2] - target) / sqrt(f.size) < 0.1
RmsWithinTolerance(f, sign, target, n_row, n_col) ==
    FLt(FMul(TrimmedSquares(f, sign, target, n_row, n_col, 0), F(100)),
        F(n_row * n_col))

\* the known-shift scenario: the shifted pair, window sizes (32, 16), overlap
\* 0.5, one validation round of the default median validation
KnownShiftRun ==
    /\ run.args.frames = "shifted"
    /\ run.args.min_window_size = 16
    /\ Len(run.args.window_size_iters) = 2
    /\ run.args.overlap_ratio = Frac(1, 2)
    /\ run.args.nb_validation_iter = 1
    /\ run.args.validation_method = Str("median_velocity")
    /\ run.args.kwargs = <<>>

\* C2: in the known-shift scenario gpu_piv returns a field whose u is 8 and
\* whose -v is -4 within 0.1 px RMS over the nodes left after trimming the two
\* outermost rows and columns.
KnownShiftRecovered ==
    (KnownShiftRun /\ RunFinished) =>
        /\ run.pc = "returned"
        /\ RmsWithinTolerance(run.u, 1, ShiftDx, run.n_row[Last(run.ws)],
                              run.n_col[Last(run.ws)])
        /\ RmsWithinTolerance(run.v, -1, ShiftDy, run.n_row[Last(run.ws)],
                              run.n_col[Last(run.ws)])

\* every window size of the schedule is at least 8 and a multiple of 8, and
\* the overlap ratio lies in (0, 1)
ScheduleValid ==
    \A K \in DOMAIN WindowSchedule(run.args.window_size_iters, run.args.min_window_size) :
        FieldArgsValid(WindowSchedule(run.args.window_size_iters,
                                      run.args.min_window_size)[K],
                       run.args.overlap_ratio)

\* the keyword that carries the tolerance of a validation method
TolKey ==
    [s2n |-> "s2n_tol", median_velocity |-> "median_tol",
     mean_velocity |-> "mean_tol", rms_velocity |-> "rms_tol"]

\* the configuration names a method outside the allowed ones, or gives a
\* selected method a tolerance that is not positive
BadValidationConfig ==
    \/ /\ run.args.validation_method.type = "str"
       /\ run.args.validation_method.text \notin ALLOWED_VALIDATION_METHODS
    \/ \E name \in ALLOWED_VALIDATION_METHODS :
          /\ InValMethods(name, run.args.validation_method)
          /\ TolKey[name] \in DOMAIN run.args.kwargs
          /\ FLe(run.args.kwargs[TolKey[name]], F(0))

\* C3: for two all-zero frames and a supported configuration gpu_piv completes
\* without error and returns u = 0 and v = 0 at every grid node.
ZeroFramesGiveZeroField ==
    (run.args.frames = "zero" /\ ScheduleValid /\ ~BadValidationConfig /\ RunFinished) =>
        /\ run.pc = "returned"
        /\ \A r \in DOMAIN run.u : \A c \in DOMAIN run.u[r] :
              FEq(run.u[r][c], F(0)) /\ FEq(run.v[r][c], F(0))

\* C9: a run whose schedule holds a window size below 8 or not a multiple of
\* 8, or whose overlap ratio is outside (0, 1), never returns a field, and up
\* to its rejection no array is transferred to the device and no iteration's
\* correlation is executed.
RejectedBeforeGpuWork ==
    ~ScheduleValid =>
        /\ run.pc # "returned"
        /\ run.transfers = 0
        /\ run.correlations = 0

\* C10: a configuration with an unknown validation method or a non-positive
\* tolerance for a selected method is rejected with an error raised by the
\* constructor; it never gets past construction.
BadValidationConfigRejected ==
    BadValidationConfig =>
        \/ run.pc = "args"
        \/ run.pc = "raised" /\ run.raised_in = "__init__"

\* what the run does instead: every validation round that is reached raises
\* TypeError, so a run returns only if it reaches no validation round
ReturnsOnlyUnvalidated ==
    run.pc = "returned" =>
        \/ run.args.nb_validation_iter = 0
        \/ Last(run.ws) = 0 /\ run.args.trust_1st_iter

\* nothing is checked before the transfers of the constructor: an invalid
\* schedule is met by AssertionError (or the TypeError of an earlier
\* validation round) in __call__ after them, or by the ValueError of a
\* negative array dimension
InvalidScheduleRaisesLate ==
    (~ScheduleValid /\ RunFinished) =>
        /\ run.pc = "raised"
        /\ \/ run.error = "ValueError" /\ run.transfers = 0
           \/ run.error \in {"AssertionError", "TypeError"} /\ run.transfers >= 5

-----------------------------------------------------------------------------
(* The validation configuration of PIVGPU.__init__.                        *)

\* tuples of one or two distinct method names, and the tuple of all four
MethodTuples ==
    {s \in UNION {[1 .. n -> ALLOWED_VALIDATION_METHODS] : n \in 1 .. 2} :
        \A i \in DOMAIN s : \A j \in DOMAIN s : s[i] = s[j] => i = j}
    \cup {<<"s2n", "median_velocity", "mean_velocity", "rms_velocity">>}

\* every choice of tolerance keywords, each given the value 3
ToleranceKwargs ==
    UNION {[K -> {F(3)}] : K \in SUBSET {"s2n_tol", "median_tol", "mean_tol", "rms_tol"}}

\* the constructor called with each validation_method and tolerance keywords;
\* the other arguments are those of a single valid iteration
ConfigInit ==
    /\ grid = Idle /\ med = Idle /\ val = Idle /\ strain = Idle /\ interp = Idle
    /\ \E validation_method \in
              {Str(t) : t \in ALLOWED_VALIDATION_METHODS \cup {"foo"}}
              \cup {Tuple(s) : s \in MethodTuples},
          kwargs \in ToleranceKwargs :
          run = [pc |-> "args",
                 args |-> [frames |-> "zero", frame_shape |-> <<32, 32>>,
                           window_size_iters |-> <<1>>,
                           min_window_size |-> 16,
                           overlap_ratio |-> Frac(1, 2),
                           nb_validation_iter |-> 1,
                           validation_method |-> validation_method,
                           kwargs |-> kwargs,
                           trust_1st_iter |-> FALSE,
                           smooth |-> TRUE,
                           mask |-> "None", dt |-> F(1)],
                 ws |-> NoField, val_tols |-> NoField, spacing |-> NoField,
                 n_row |-> NoField, n_col |-> NoField,
                 mask_d |-> NoField, mask |-> NoField, replaced |-> NoField,
                 k |-> 0, transfers |-> 0, correlations |-> 0,
                 calls |-> 1, previous |-> NoField, smoothn |-> <<>>,
                 error |-> "none", raised_in |-> "none",
                 i_peak |-> NoField, j_peak |-> NoField,
                 u_d |-> NoField, v_d |-> NoField,
                 dp_x_d |-> NoField, dp_y_d |-> NoField,
                 u |-> NoField, v |-> NoField]

SpecConfig == ConfigInit /\ [][Construct]_vars

\* the position of each criterion in self.val_tols
TolIndex == [s2n |-> 1, median_velocity |-> 2, mean_velocity |-> 3, rms_velocity |-> 4]

\* the default tolerances of the constructor
ConstructorDefaultTol ==
    [s2n |-> Frac(6, 5), median_velocity |-> F(2), mean_velocity |-> F(2),
     rms_velocity |-> F(2)]

\* the configuration names the method: it is the string, or an item of the
\* tuple
MethodNamed(name) ==
    \/ run.args.validation_method.type = "str"
       /\ run.args.validation_method.text = name
    \/ run.args.validation_method.type = "tuple"
       /\ \E i \in DOMAIN run.args.validation_method.items :
             run.args.validation_method.items[i] = name

\* C12: after construction exactly the criteria named by validation_method (a
\* string or a tuple of names) are enabled, each with its configured or default
\* tolerance, and every other criterion is disabled.
NamedCriteriaEnabled ==
    run.pc = "call" =>
        \A name \in ALLOWED_VALIDATION_METHODS :
            run.val_tols[TolIndex[name]] =
                IF MethodNamed(name)
                THEN KwargOr(run.args.kwargs, TolKey[name], ConstructorDefaultTol[name])
                ELSE NoneTol

\* what the constructor does: a string enables the criterion it names, a tuple
\* enables nothing
OnlyStringsEnable ==
    run.pc = "call" =>
        \A name \in ALLOWED_VALIDATION_METHODS :
            run.val_tols[TolIndex[name]] =
                IF run.args.validation_method.type = "str"
                   /\ run.args.validation_method.text = name
                THEN KwargOr(run.args.kwargs, TolKey[name], ConstructorDefaultTol[name])
                ELSE NoneTol

-----------------------------------------------------------------------------
(* Runs with an image mask and a time delay.                               *)

TimeDelays == {F(1), F(2)}

\* the arguments of gpu_piv with a mask over all-zero frames (which the mask
\* leaves all-zero), or the shifted pair without a mask; the window sizes are
\* multiples of 16 and the overlap ratio is 1/2
OptionsInit ==
    /\ grid = Idle /\ med = Idle /\ val = Idle /\ strain = Idle /\ interp = Idle
    /\ \E frames \in FrameKinds, mask \in MaskArgs, dt \in TimeDelays,
          frame_shape \in FrameShapes, window_size_iters \in WindowSizeIters,
          nb_validation_iter \in {0, 1}, trust_1st_iter \in BOOLEAN,
          smooth \in BOOLEAN :
          /\ frames = "shifted" => mask = "None"
          /\ run = [pc |-> "args",
                    args |-> [frames |-> frames, frame_shape |-> frame_shape,
                              window_size_iters |-> window_size_iters,
                              min_window_size |-> 16,
                              overlap_ratio |-> Frac(1, 2),
                              nb_validation_iter |-> nb_validation_iter,
                              validation_method |-> Str("median_velocity"),
                              kwargs |-> <<>>,
                              trust_1st_iter |-> trust_1st_iter,
                              smooth |-> smooth,
                              mask |-> mask, dt |-> dt],
                    ws |-> NoField, val_tols |-> NoField, spacing |-> NoField,
                    n_row |-> NoField, n_col |-> NoField,
                    mask_d |-> NoField, mask |-> NoField, replaced |-> NoField,
                    k |-> 0, transfers |-> 0, correlations |-> 0,
                    calls |-> 1, previous |-> NoField, smoothn |-> <<>>,
                    error |-> "none", raised_in |-> "none",
                    i_peak |-> NoField, j_peak |-> NoField,
                    u_d |-> NoField, v_d |-> NoField,
                    dp_x_d |-> NoField, dp_y_d |-> NoField,
                    u |-> NoField, v |-> NoField]

SpecOptions == OptionsInit /\ [][RunNext]_vars

\* C13: the mask returned with the field is true exactly at the nodes of the
\* final grid whose vector validation replaced in the last iteration, and
\* false at every node that kept its computed value.
MaskMarksReplaced ==
    run.pc = "returned" =>
        \A r \in DOMAIN run.mask : \A c \in DOMAIN run.mask[r] :
            FNe(run.mask[r][c], F(0)) <=> run.replaced[r][c]

\* what the returned mask is: the image mask sampled at the nodes of the last
\* grid, 1 everywhere without an image mask
MaskIsImageSample ==
    run.pc = "returned" =>
        \A r \in DOMAIN run.mask : \A c \in DOMAIN run.mask[r] :
            run.mask[r][c] =
                IF run.args.mask = "None" THEN F(1)
                ELSE F(MaskPixel(run.args.mask, run.args.frame_shape,
                                 run.spacing[run.k] * (r + 1),
                                 run.spacing[run.k] * (c + 1)))

\* C14: in a field returned from a run with an image mask, every node of the
\* final grid at which the image mask samples 0 has u = 0 and v = 0.
MaskedNodesZero ==
    (run.pc = "returned" /\ run.args.mask # "None") =>
        \A r \in DOMAIN run.u : \A c \in DOMAIN run.u[r] :
            FEq(run.mask[r][c], F(0)) =>
                FEq(run.u[r][c], F(0)) /\ FEq(run.v[r][c], F(0))

\* what holds: in a single-iteration run the masked nodes are zero; NaN
\* reaches them only through the predictor of a later iteration
MaskedNodesZeroSingleIteration ==
    (run.pc = "returned" /\ run.args.mask # "None" /\ Last(run.ws) = 0) =>
        \A r \in DOMAIN run.u : \A c \in DOMAIN run.u[r] :
            FEq(run.mask[r][c], F(0)) =>
                FEq(run.u[r][c], F(0)) /\ FEq(run.v[r][c], F(0))

\* criterion i, given the statistics it computed for a node, flags the value f
CriterionFlags(f, st, tol) == ~FLt(Ratio(f, st), tol)

\* C18: in the list gpu_validation returns, a node needs correction (0) if and
\* only if at least one criterion named in validation_method flags it on u or
\* on v; a criterion that is not named contributes nothing.
FlagsOrCombined ==
    ValidationRan =>
        \A w \in ValNodes :
            (val.result.val_locations[w] = 0) <=>
            \E i \in 1 .. 3 :
                /\ NeighbourCriteria[i] \in val.validation_method
                /\ \/ CriterionFlags(val.u[w], val.result.stats[i][w].u,
                                     val.result.stats[i][w].tol)
                   \/ CriterionFlags(val.v[w], val.result.stats[i][w].v,
                                     val.result.stats[i][w].tol)

\* two criteria were requested; some node is flagged by one of them only, on
\* one component only, and is marked; another node is flagged by none and is
\* not marked
FlagsOrCombinedWitness ==
    /\ ValidationRan
    /\ \E w \in ValNodes : \E i \in DOMAIN val.result.stats :
       \E j \in DOMAIN val.result.stats :
          /\ i # j
          /\ CriterionFlags(val.u[w], val.result.stats[i][w].u, val.result.stats[i][w].tol)
          /\ ~CriterionFlags(val.v[w], val.result.stats[i][w].v, val.result.stats[i][w].tol)
          /\ ~CriterionFlags(val.u[w], val.result.stats[j][w].u, val.result.stats[j][w].tol)
          /\ ~CriterionFlags(val.v[w], val.result.stats[j][w].v, val.result.stats[j][w].tol)
          /\ val.result.val_locations[w] = 0
    /\ \E w \in ValNodes : val.result.val_locations[w] = 1

-----------------------------------------------------------------------------
(* Validation of a field that holds a node under the image mask.           *)

\* a field as _update_values leaves it under a mask that is 0 at node p: u and
\* v are 0 at p; the other nodes hold a uniform velocity. The mask stays with
\* PIVGPU (mask_d): gpu_validation has no parameter for it
MaskedValInit ==
    /\ grid = Idle /\ med = Idle /\ strain = Idle /\ interp = Idle /\ run = Idle
    /\ \E n_row \in 1 .. MaxValDim, n_col \in 1 .. MaxValDim :
       \E p \in 0 .. (n_row * n_col - 1) :
       \E u_flow \in {F(0), F(1)}, v_flow \in {F(0), F(-1)} :
       \E methods \in SUBSET ALLOWED_VALIDATION_METHODS, tol \in TolArgs, has_s2n \in BOOLEAN :
          /\ has_s2n => "s2n" \in methods
          /\ val = [pc |-> "input", n_row |-> n_row, n_col |-> n_col,
                    mask |-> [w \in 0 .. (n_row * n_col - 1) |-> IF w = p THEN 0 ELSE 1],
                    u |-> [w \in 0 .. (n_row * n_col - 1) |->
                              update_values(F(0), u_flow, F(IF w = p THEN 0 ELSE 1))],
                    v |-> [w \in 0 .. (n_row * n_col - 1) |->
                              update_values(F(0), v_flow, F(IF w = p THEN 0 ELSE 1))],
                    has_s2n |-> has_s2n, validation_method |-> methods,
                    tols |-> [s2n_tol |-> NoneTol, median_tol |-> tol,
                              mean_tol |-> tol, rms_tol |-> tol]]

SpecValidMasked == MaskedValInit /\ [][ValNext]_vars

\* C15: a node under the image mask (mask value 0) is never flagged by a
\* validation pass, whatever its neighbours' values and the enabled criteria.
MaskedNodeNeverFlagged ==
    ValidationRan =>
        \A w \in ValNodes : val.mask[w] = 0 => val.result.val_locations[w] = 1

\* what the pass does: the node under the mask is judged like any other node,
\* by its ratios alone
MaskedNodeJudgedByRatio ==
    ValidationRan =>
        \A w \in ValNodes :
            val.result.val_locations[w] = 1 <=>
                \A i \in DOMAIN val.result.stats :
                    LET st == val.result.stats[i][w]
                    IN  FLt(Ratio(val.u[w], st.u), st.tol)
                        /\ FLt(Ratio(val.v[w], st.v), st.tol)

\* the predictor of the iteration the run is in: zero on the first iteration
Predictor(dp_d, r, c) == IF run.k = 0 THEN F(0) ELSE dp_d[r][c]

\* C16: a returned field has u = field_u / dt and v = -(field_v / dt), where
\* field_u is the predictor plus the column-axis peak offset and field_v the
\* predictor plus the row-axis peak offset of the last iteration (both times
\* the mask).
ReturnedFieldScaled ==
    run.pc = "returned" =>
        \A r \in DOMAIN run.u : \A c \in DOMAIN run.u[r] :
            LET field_u == FMul(FAdd(Predictor(run.dp_x_d, r, c), run.j_peak[r][c]),
                                run.mask_d[run.k][r][c])
                field_v == FMul(FAdd(Predictor(run.dp_y_d, r, c), run.i_peak[r][c]),
                                run.mask_d[run.k][r][c])
            IN  /\ run.u[r][c] = FDiv(field_u, run.args.dt)
                /\ run.v[r][c] = FNeg(FDiv(field_v, run.args.dt))

\* the shifted pair processed with dt = 2 in two iterations: the column offset
\* 8 is returned as u = 4 and the row offset -4 as v = 2
ReturnedFieldScaledWitness ==
    /\ run.pc = "returned"
    /\ run.args.frames = "shifted"
    /\ run.args.dt = F(2)
    /\ run.k = 1
    /\ \E r \in DOMAIN run.u : \E c \in DOMAIN run.u[r] :
          run.u[r][c] = F(4) /\ run.v[r][c] = F(2)

-----------------------------------------------------------------------------
(* Repeated calls of one PIVGPU object.                                    *)

\* the arguments of runs that return: no validation round, window sizes that
\* are multiples of 16, overlap ratio 1/2
RepeatInit ==
    /\ grid = Idle /\ med = Idle /\ val = Idle /\ strain = Idle /\ interp = Idle
    /\ \E frames \in FrameKinds, frame_shape \in FrameShapes,
          window_size_iters \in WindowSizeIters, smooth \in BOOLEAN :
          run = [pc |-> "args",
                 args |-> [frames |-> frames, frame_shape |-> frame_shape,
                           window_size_iters |-> window_size_iters,
                           min_window_size |-> 16,
                           overlap_ratio |-> Frac(1, 2),
                           nb_validation_iter |-> 0,
                           validation_method |-> Str("median_velocity"),
                           kwargs |-> <<>>,
                           trust_1st_iter |-> TRUE,
                           smooth |-> smooth,
                           mask |-> "None", dt |-> F(1)],
                 ws |-> NoField, val_tols |-> NoField, spacing |-> NoField,
                 n_row |-> NoField, n_col |-> NoField,
                 mask_d |-> NoField, mask |-> NoField, replaced |-> NoField,
                 k |-> 0, transfers |-> 0, correlations |-> 0,
                 calls |-> 1, previous |-> NoField, smoothn |-> <<>>,
                 error |-> "none", raised_in |-> "none",
                 i_peak |-> NoField, j_peak |-> NoField,
                 u_d |-> NoField, v_d |-> NoField,
                 dp_x_d |-> NoField, dp_y_d |-> NoField,
                 u |-> NoField, v |-> NoField]

RepeatNext == RunNext \/ CallAgain

SpecRepeat == RepeatInit /\ [][RepeatNext]_vars

-----------------------------------------------------------------------------
(* The signal-to-noise criterion.                                          *)

\* the validation kernel of _local_validation for one node
local_validation(val_list, sig2noise, s2n_tol) ==
    val_list * Bool(FGt(sig2noise, s2n_tol))

RECURSIVE Power(_, _)
Power(b, e) == IF e = 0 THEN 1 ELSE b * Power(b, e - 1)

\* log10(s) < tol for a finite s = n/d and tol = p/q: true at 0 (log10 is
\* -inf), false below 0 (log10 is NaN), and n^q < 10^p * d^q otherwise
Log10Below(s, tol) ==
    IF s[1] = 0 THEN TRUE
    ELSE IF s[1] < 0 THEN FALSE
    ELSE IF tol[1] >= 0
    THEN Power(s[1], tol[2]) < Power(10, tol[1]) * Power(s[2], tol[2])
    ELSE Power(s[1], tol[2]) * Power(10, -tol[1]) < Power(s[2], tol[2])

\* signal-to-noise ratios explored
S2nValues == {F(0), F(1), Frac(5, 4), F(2)}

\* calls of gpu_validation that request s2n and pass sig2noise_d: a uniform
\* field, the ratio low at node p, the tolerance None (0.1 applies) or 1
S2nInit ==
    /\ grid = Idle /\ med = Idle /\ strain = Idle /\ interp = Idle /\ run = Idle
    /\ \E n_row \in 1 .. MaxValDim, n_col \in 1 .. MaxValDim :
       \E p \in 0 .. (n_row * n_col - 1) :
       \E low \in S2nValues, high \in S2nValues, tol \in TolArgs :
       \E methods \in SUBSET ALLOWED_VALIDATION_METHODS :
          /\ "s2n" \in methods
          /\ val = [pc |-> "input", n_row |-> n_row, n_col |-> n_col,
                    u |-> PerturbedField(n_row * n_col, F(1), p, F(0)),
                    v |-> PerturbedField(n_row * n_col, F(0), p, F(0)),
                    sig2noise |-> [w \in 0 .. (n_row * n_col - 1) |->
                                      IF w = p THEN low ELSE high],
                    has_s2n |-> TRUE, validation_method |-> methods,
                    tols |-> [s2n_tol |-> tol, median_tol |-> NoneTol,
                              mean_tol |-> NoneTol, rms_tol |-> NoneTol]]

SpecS2n == S2nInit /\ [][ValNext]_vars

\* C19: under the s2n criterion alone a node is flagged if and only if
\* log10(sig2noise) < tol.
S2nFlagsInLogSpace ==
    (val.pc = "done" /\ val.validation_method = {"s2n"}) =>
        /\ val.result.error = "none"
        /\ \A w \in ValNodes :
              (val.result.val_locations[w] = 0) <=>
              Log10Below(val.sig2noise[w], TolOrDefault(val.tols.s2n_tol, "s2n_tol"))

\* what the call does: it ends in the error of get_function, which is asked
\* for a kernel the module does not hold
S2nCallRaises ==
    val.pc = "done" => val.result.error = "LogicError"

-----------------------------------------------------------------------------
(* Replacement of the flagged vectors.                                     *)

\* the list taken as it is given: True where the list holds 1
validation_location_as_given(validation_list) ==
    [r \in DOMAIN validation_list |-> [c \in DOMAIN validation_list[r] |->
        validation_list[r][c] # 0]]

\* np.invert(validation_list.astype(bool)): True where the vector is to be
\* replaced
validation_location(validation_list) ==
    [r \in DOMAIN validation_list |-> [c \in DOMAIN validation_list[r] |->
        ~(validation_list[r][c] # 0)]]

\* a replacement that takes the statistic of node 0 for every flagged node
replace_component_from_first(x, y, f_d, f_previous_d, v_loc, f_mean_d, k, g, r, c, garbage) ==
    IF v_loc[r][c] THEN f_mean_d[0] ELSE f_d[r][c]

\* one component of gpu_replace_vectors at node (r, c) of the grid of
\* iteration k; g holds the grids of iterations k - 1 (index 0) and k (index
\* 1) when k > 0, and the grid of iteration 0 at index 0 when k = 0
replace_component(x, y, f_d, f_previous_d, v_loc, f_mean_d, k, g, r, c, garbage) ==
    IF k = 0
    THEN (IF v_loc[r][c] THEN f_mean_d[r * g.n_col[0] + c] ELSE f_d[r][c])
    ELSE IF g.n_row[1] # g.n_row[0] \/ g.n_col[1] # g.n_col[0]
    THEN gpu_interpolate_surroundings(x, y, f_previous_d, f_d, v_loc, g, r, c, garbage)
    ELSE IF g.n_row[1] = g.n_row[0] \/ g.n_col[1] = g.n_col[0]
    THEN (IF v_loc[r][c]
          THEN Flat(f_previous_d, g.n_row[0], g.n_col[0])[r * g.n_col[1] + c]
          ELSE f_d[r][c])
    ELSE f_d[r][c]

\* gpu_replace_vectors(x_d, y_d, u_d, v_d, u_previous_d, v_previous_d,
\* validation_list, u_mean_d, v_mean_d, k, n_row, n_col, w, overlap). In the
\* two branches that go through _gpu_array_index and _gpu_index_update, a
\* list that flags nothing makes indices_d an array of size 0; whether the
\* launches over it go through (empty_launch) or raise is left open
gpu_replace_vectors(x, y, u_d, v_d, u_previous_d, v_previous_d, validation_list, u_mean_d, v_mean_d, k, g, garbage, empty_launch) ==
    LET v_loc == validation_location(validation_list) @@ <<>>
        interpolates == k > 0 /\ (g.n_row[1] # g.n_row[0] \/ g.n_col[1] # g.n_col[0])
        flags_none == \A r \in DOMAIN v_loc : \A c \in DOMAIN v_loc[r] : ~v_loc[r][c]
    IN  IF ~interpolates /\ flags_none /\ ~empty_launch THEN [raised |-> TRUE]
        ELSE
        [raised |-> FALSE,
         u |-> [r \in DOMAIN u_d |-> [c \in DOMAIN u_d[r] |->
                   replace_component(x, y, u_d, u_previous_d, v_loc, u_mean_d, k, g,
                                     r, c, garbage)]],
         v |-> [r \in DOMAIN v_d |-> [c \in DOMAIN v_d[r] |->
                   replace_component(x, y, v_d, v_previous_d, v_loc, v_mean_d, k, g,
                                     r, c, garbage)]]]

\* a field whose node (r, c) holds first + step * (r * n_col + c): no two
\* nodes hold the same value
Ramp(n_row, n_col, first, step) ==
    [r \in 0 .. (n_row - 1) |-> [c \in 0 .. (n_col - 1) |->
        F(first + step * (r * n_col + c))]]

\* the window sizes of iterations k - 1 and k: halved, or kept
ReplaceSchedules == {<<16, 8>>, <<8, 8>>}

\* validation lists: 0 on the nodes a pattern of VListPatterns selects, or 0
\* on the single node p
ValidationList(pattern, p, nr, nc) ==
    [r \in 0 .. (nr - 1) |-> [c \in 0 .. (nc - 1) |->
        IF pattern = "single" THEN (IF r * nc + c = p THEN 0 ELSE 1)
        ELSE IF VList(pattern, nr, nc)[r][c] THEN 0 ELSE 1]]

\* the inputs of gpu_replace_vectors: the iteration, the grids, fields of
\* distinct values on the current and the previous grid, the mean field and a
\* validation list
ReplaceInit ==
    /\ grid = Idle /\ med = Idle /\ val = Idle /\ strain = Idle /\ run = Idle
    /\ \E ht \in InterpSides, wd \in InterpSides, k \in {0, 1}, ws \in ReplaceSchedules :
       \E pattern \in VListPatterns \cup {"single"}, p \in {0, 1, 6} :
          LET g == Geometry(ht, wd, [K \in 0 .. 1 |-> ws[K + 1]], Frac(1, 2))
              cur == IF k = 0 THEN 0 ELSE 1
              nr == g.n_row[cur]
              nc == g.n_col[cur]
          IN  /\ pattern # "single" => p = 0
              /\ interp = [pc |-> "input", k |-> k, g |-> g,
                           u_d |-> Ramp(nr, nc, 1, 1),
                           v_d |-> Ramp(nr, nc, 1, 2),
                           u_previous_d |-> Ramp(g.n_row[0], g.n_col[0], -1, -1),
                           v_previous_d |-> Ramp(g.n_row[0], g.n_col[0], -1, -2),
                           u_mean_d |-> Flat(Ramp(nr, nc, 100, 1), nr, nc),
                           v_mean_d |-> Flat(Ramp(nr, nc, 200, 1), nr, nc),
                           validation_list |-> ValidationList(pattern, p, nr, nc)]

\* one call of gpu_replace_vectors
CallReplaceVectors ==
    /\ interp.pc = "input"
    /\ \E garbage \in {F(0), NaN}, empty_launch \in BOOLEAN :
          interp' = [interp EXCEPT !.pc = "done"] @@
                    [result |->
                        gpu_replace_vectors(XArray(interp.g), YArray(interp.g),
                                            interp.u_d, interp.v_d,
                                            interp.u_previous_d, interp.v_previous_d,
                                            interp.validation_list,
                                            interp.u_mean_d, interp.v_mean_d,
                                            interp.k, interp.g, garbage, empty_launch)]
    /\ UNCHANGED <<grid, med, val, strain, run>>

SpecReplace == ReplaceInit /\ [][CallReplaceVectors]_vars

\* C20: gpu_replace_vectors returns fields of the shape of u, v in which every
\* node the validation list does not flag (1) holds the value it had before
\* the call, in each of the three branches.
UnflaggedKept ==
    (interp.pc = "done" /\ ~interp.result.raised) =>
        /\ DOMAIN interp.result.u = DOMAIN interp.u_d
        /\ DOMAIN interp.result.v = DOMAIN interp.v_d
        /\ \A r \in DOMAIN interp.u_d :
              /\ DOMAIN interp.result.u[r] = DOMAIN interp.u_d[r]
              /\ DOMAIN interp.result.v[r] = DOMAIN interp.v_d[r]
              /\ \A c \in DOMAIN interp.u_d[r] :
                    interp.validation_list[r][c] = 1 =>
                        /\ interp.result.u[r][c] = interp.u_d[r][c]
                        /\ interp.result.v[r][c] = interp.v_d[r][c]

\* a call of the given kind has overwritten a flagged node and kept an
\* unflagged one
ReplacedIn(k, different) ==
    /\ interp.pc = "done"
    /\ ~interp.result.raised
    /\ interp.k = k
    /\ (interp.g.n_row[1] # interp.g.n_row[0]) = different
    /\ \E r \in DOMAIN interp.u_d : \E c \in DOMAIN interp.u_d[r] :
          /\ interp.validation_list[r][c] = 0
          /\ interp.result.u[r][c] # interp.u_d[r][c]
    /\ \E r \in DOMAIN interp.u_d : \E c \in DOMAIN interp.u_d[r] :
          interp.validation_list[r][c] = 1

\* the branch that interpolates from a grid of another shape
UnflaggedKeptWitness == ReplacedIn(1, TRUE)

UnflaggedKeptFirstIteration == ReplacedIn(0, TRUE)

UnflaggedKeptSameShape == ReplacedIn(1, FALSE)

-----------------------------------------------------------------------------
(* A validation round of the first iteration: validation, then replacement. *)

\* the 2D array whose C-order flattening is f
Unflat(f, n_row, n_col) ==
    [r \in 0 .. (n_row - 1) |-> [c \in 0 .. (n_col - 1) |-> f[r * n_col + c]]]

\* the grids seen by gpu_replace_vectors at k = 0: only that of iteration 0
SingleGrid(n_row, n_col) ==
    [n_row |-> [K \in 0 .. 1 |-> n_row], n_col |-> [K \in 0 .. 1 |-> n_col]]

\* fields with one displaced node, validated by the median and / or the mean
\* criterion
RoundInit ==
    /\ grid = Idle /\ med = Idle /\ strain = Idle /\ interp = Idle /\ run = Idle
    /\ \E n_row \in 1 .. MaxValDim, n_col \in 1 .. MaxValDim :
       \E p \in 0 .. (n_row * n_col - 1) :
       \E du \in {F(0), F(1), F(-2)}, dv \in {F(0), F(1)} :
       \E methods \in (SUBSET {"median_velocity", "mean_velocity"}) \ {{}}, tol \in TolArgs :
          val = [pc |-> "input", n_row |-> n_row, n_col |-> n_col,
                 u |-> PerturbedField(n_row * n_col, F(1), p, du),
                 v |-> PerturbedField(n_row * n_col, F(0), p, dv),
                 has_s2n |-> FALSE, validation_method |-> methods,
                 tols |-> [s2n_tol |-> NoneTol, median_tol |-> tol,
                           mean_tol |-> tol, rms_tol |-> NoneTol]]

\* the replacement of a round of iteration 0: gpu_replace_vectors with k = 0 on
\* the list and the statistics gpu_validation returned, when the list flags a
\* node (n_val > 0)
ReplaceFirstIteration ==
    /\ val.pc = "done"
    /\ val.result.error = "none"
    /\ \E w \in 0 .. (val.n_row * val.n_col - 1) : val.result.val_locations[w] = 0
    /\ val' = [val EXCEPT !.pc = "replaced"] @@
              [new |-> gpu_replace_vectors(<<>>, <<>>,
                           Unflat(val.u, val.n_row, val.n_col),
                           Unflat(val.v, val.n_row, val.n_col), <<>>, <<>>,
                           Unflat(val.result.val_locations, val.n_row, val.n_col),
                           val.result.u_median, val.result.v_median, 0,
                           SingleGrid(val.n_row, val.n_col), NaN, TRUE)]
    /\ UNCHANGED <<grid, med, strain, interp, run>>

RoundNext == CallGpuValidation \/ ReplaceFirstIteration

SpecRound == RoundInit /\ [][RoundNext]_vars

\* the in-grid neighbours of node w: the nodes at most one row and one column
\* away, w excluded
NeighboursOf(w) ==
    {n \in 0 .. (val.n_row * val.n_col - 1) :
        /\ n # w
        /\ (n \div val.n_col) - (w \div val.n_col) \in {-1, 0, 1}
        /\ (n % val.n_col) - (w % val.n_col) \in {-1, 0, 1}}

\* the k-th smallest (from 1) of the values f holds on the nodes of S
KthOf(f, S, k) ==
    LET below(x) == Cardinality({n \in S : FLt(f[n], x)})
        atMost(x) == Cardinality({n \in S : FLe(f[n], x)})
    IN  f[CHOOSE n \in S : below(f[n]) < k /\ k <= atMost(f[n])]

\* the median of the values f holds on the neighbours of w
NeighbourMedian(f, w) ==
    LET S == NeighboursOf(w)
        N == Cardinality(S)
    IN  IF N % 2 = 1 THEN KthOf(f, S, N \div 2 + 1)
        ELSE FDiv(FAdd(KthOf(f, S, N \div 2), KthOf(f, S, N \div 2 + 1)), F(2))

-----------------------------------------------------------------------------
(* The bracketing search _f_dichotomy_gpu.                                 *)

\* the kernel's first value of low: floorf((w_a/2 - w_b/2 + pos * dxa) / dxb)
dichotomy_guess(pos, w_a, w_b, dxa, dxb) ==
    FFloor(FDiv(FAdd(FSub(FDiv(F(w_a), F(2)), FDiv(F(w_b), F(2))),
                     FMul(F(pos), F(dxa))), F(dxb)))

\* the elements of the coordinate array one thread reads: x[NrowMax + pos] and
\* x[low]
dichotomy_reads(pos, w_a, w_b, dxa, dxb, NrowMax) ==
    {NrowMax + pos, dichotomy_guess(pos, w_a, w_b, dxa, dxb)}

\* overlap ratios and successive window sizes explored
DichotomyRatios == {Frac(1, 4), Frac(1, 2), Frac(3, 4)}

DichotomySchedules == {<<16, 8>>, <<32, 16>>}

\* the index along the axis of an interior node or of a non-corner side node
\* of the grid of iteration k + 1: interior_ind_x, interior_ind_y, top_ind,
\* bottom_ind, left_ind and right_ind never hold the first or the last index
DichotomyInit ==
    /\ grid = Idle /\ med = Idle /\ val = Idle /\ strain = Idle /\ run = Idle
    /\ \E ht \in InterpSides, wd \in InterpSides, r \in DichotomyRatios,
          ws \in DichotomySchedules, side \in {"x_axis", "y_axis"} :
          LET g == Geometry(ht, wd, [K \in 0 .. 1 |-> ws[K + 1]], r)
              n == IF side = "x_axis" THEN g.n_row ELSE g.n_col
          IN  \E pos \in 1 .. (n[1] - 2) :
                 /\ n[0] >= 1
                 /\ interp = [pc |-> "input", g |-> g, side |-> side, pos |-> pos,
                              n |-> n]

\* one thread of _f_dichotomy_gpu as gpu_interpolate_surroundings calls it;
\* a read outside the coordinate array yields any value, among them the one
\* the kernel compares it with
CallDichotomy ==
    /\ interp.pc = "input"
    /\ \E garbage \in {F(0), NaN, F(interp.g.spacing[1])} :
          LET g == interp.g
              lh == IF interp.side = "x_axis"
                    THEN DichotomyX(XArray(g), g, interp.pos, garbage)
                    ELSE DichotomyY(YArray(g), g, interp.pos, garbage)
          IN  interp' = [interp EXCEPT !.pc = "done"] @@
                        [low |-> lh[1], high |-> lh[2],
                         reads |-> dichotomy_reads(interp.pos, g.w[1], g.w[0],
                                                   g.w[1] - g.overlap[1],
                                                   g.w[0] - g.overlap[0], interp.n[1])]
    /\ UNCHANGED <<grid, med, val, strain, run>>

SpecDichotomy == DichotomyInit /\ [][CallDichotomy]_vars

\* the coordinate PIVGPU.__init__ gives node j of iteration K along the axis
CoordOf(K, j) == interp.g.spacing[K] * (j + 1)

\* C22: for a node of the new grid whose coordinate lies within the previous
\* grid's coordinates, the search returns the largest low and the smallest
\* high with coord_prev[low] <= coord_new[pos] <= coord_prev[high].
DichotomyBrackets ==
    (/\ interp.pc = "done"
     /\ CoordOf(0, 0) <= CoordOf(1, interp.pos)
     /\ CoordOf(1, interp.pos) <= CoordOf(0, interp.n[0] - 1)) =>
        LET Prev == 0 .. (interp.n[0] - 1)
            c == CoordOf(1, interp.pos)
        IN  /\ interp.low \in Prev /\ interp.high \in Prev
            /\ CoordOf(0, interp.low) <= c
            /\ c <= CoordOf(0, interp.high)
            /\ \A j \in Prev : CoordOf(0, j) <= c => j <= interp.low
            /\ \A j \in Prev : c <= CoordOf(0, j) => interp.high <= j

\* what holds for the overlap ratio 1/2: the pair brackets the coordinate,
\* with high one above low also where a previous node coincides
DichotomyBracketsLoosely ==
    (/\ interp.pc = "done"
     /\ interp.g.spacing[0] = 2 * interp.g.spacing[1]
     /\ interp.g.w[0] = 2 * interp.g.spacing[0]
     /\ CoordOf(0, 0) <= CoordOf(1, interp.pos)
     /\ CoordOf(1, interp.pos) <= CoordOf(0, interp.n[0] - 1)) =>
        /\ interp.low \in 0 .. (interp.n[0] - 1)
        /\ interp.high \in 0 .. (interp.n[0] - 1)
        /\ CoordOf(0, interp.low) <= CoordOf(1, interp.pos)
        /\ CoordOf(1, interp.pos) <= CoordOf(0, interp.high)

\* C27: the returned indices satisfy 0 <= low <= high <= N_prev - 1 and every
\* element the kernel reads from the coordinate array lies inside the array.
DichotomyInBounds ==
    interp.pc = "done" =>
        /\ 0 <= interp.low
        /\ interp.low <= interp.high
        /\ interp.high <= interp.n[0] - 1
        /\ \A i \in interp.reads : 0 <= i /\ i < 2 * interp.n[1]

\* what holds for the overlap ratio 1/2
DichotomyInBoundsHalfOverlap ==
    (interp.pc = "done" /\ interp.g.w[0] = 2 * interp.g.spacing[0]) =>
        /\ 0 <= interp.low
        /\ interp.low <= interp.high
        /\ interp.high <= interp.n[0] - 1
        /\ \A i \in interp.reads : 0 <= i /\ i < 2 * interp.n[1]

-----------------------------------------------------------------------------
(* The validation rounds of the main loop.                                 *)

\* the largest nb_validation_iter and the largest nb_iter_max explored
MaxRounds == 3

MaxIters == 3

\* a PIVGPU object about to enter the main loop; rounds[k] counts the rounds
\* of iteration k in which gpu_validation returned, replacements[k] those
\* that went on to gpu_replace_vectors
RoundsInit ==
    /\ grid = Idle /\ med = Idle /\ val = Idle /\ strain = Idle /\ interp = Idle
    /\ \E nb_iter_max \in 1 .. MaxIters, nb_validation_iter \in 0 .. MaxRounds,
          trust_1st_iter \in BOOLEAN, validation_method \in ValidationMethodArgs :
          run = [pc |-> "validation", nb_iter_max |-> nb_iter_max,
                 nb_validation_iter |-> nb_validation_iter,
                 trust_1st_iter |-> trust_1st_iter,
                 val_tols |-> ValTols(validation_method, <<>>),
                 k |-> 0, i |-> 0,
                 rounds |-> [K \in 0 .. (nb_iter_max - 1) |-> 0],
                 replacements |-> [K \in 0 .. (nb_iter_max - 1) |-> 0],
                 error |-> "none", raised_in |-> "none"]

\* the VALIDATION branch of the main loop: a trusted first iteration skips
\* _validate_fields
ValidationBranch ==
    /\ run.pc = "validation"
    /\ run' = IF run.k = 0 /\ run.trust_1st_iter
              THEN [run EXCEPT !.pc = "next"]
              ELSE [run EXCEPT !.pc = "round", !.i = 0]
    /\ UNCHANGED <<grid, med, val, strain, interp>>

\* one pass of the loop for i in range(self.nb_validation_iter): the call of
\* gpu_validation with six positional arguments and the elements of
\* self.val_tols, then gpu_replace_vectors when a node was flagged
ValidationRound ==
    /\ run.pc = "round"
    /\ \E n_val \in {0, 1} :
          run' = IF run.i >= run.nb_validation_iter
                 THEN [run EXCEPT !.pc = "next"]
                 ELSE IF 6 + Len(run.val_tols) > GpuValidationParams
                 THEN Raise("TypeError", "_validate_fields")
                 ELSE [run EXCEPT !.i = @ + 1,
                                  !.rounds[run.k] = @ + 1,
                                  !.replacements[run.k] = @ + Bool(n_val > 0)]
    /\ UNCHANGED <<grid, med, val, strain, interp>>

\* the end of one pass of the main loop
NextIteration ==
    /\ run.pc = "next"
    /\ run' = IF run.k < run.nb_iter_max - 1
              THEN [run EXCEPT !.pc = "validation", !.k = @ + 1]
              ELSE [run EXCEPT !.pc = "return"]
    /\ UNCHANGED <<grid, med, val, strain, interp>>

RoundsNext == ValidationBranch \/ ValidationRound \/ NextIteration

SpecRounds == RoundsInit /\ [][RoundsNext]_vars

\* the iterations whose validation step is behind the run
ValidatedIterations ==
    {K \in 0 .. (run.nb_iter_max - 1) :
        \/ K < run.k
        \/ K = run.k /\ run.pc \in {"next", "return", "raised"}}

\* C23: the validation executes exactly nb_validation_iter rounds in every
\* iteration, and none in a trusted iteration 0.
RoundsPerIteration ==
    \A K \in ValidatedIterations :
        run.rounds[K] = IF K = 0 /\ run.trust_1st_iter THEN 0
                        ELSE run.nb_validation_iter

\* what the main loop does: no round is ever completed, and a run that
\* reaches a first round ends there with TypeError
NoRoundCompletes ==
    /\ \A K \in 0 .. (run.nb_iter_max - 1) :
          run.rounds[K] = 0 /\ run.replacements[K] = 0
    /\ run.pc = "return" =>
          \/ run.nb_validation_iter = 0
          \/ run.nb_iter_max = 1 /\ run.trust_1st_iter

-----------------------------------------------------------------------------
(* The arguments of the correlator across the main loop.                   *)

\* None, and a value that is not None
None == <<>>

Some(value) == <<value>>

\* window_size_iters explored, with min_window_size 8
InvokeSchedules == {<<1>>, <<2>>, <<1, 1>>, <<1, 2>>}

InvokeMinWindowSize == 8

\* the predictors the end of an iteration may produce: fields on a 2 x 2
\* grid, flattened
PredictorFields == {LinearField(2, 2, F(1), a, a, 0, F(0)) : a \in Slopes}

\* _get_corr_arguments that computes the strain whether or not deform is set
get_corr_arguments_always_strain(dp_x_d, dp_y_d, spacing, deform) ==
    [shift_d |-> Some(<<dp_x_d, dp_y_d>>),
     strain_d |-> Some(gradient(dp_x_d, dp_y_d, F(spacing), 2, 2, NaN))]

\* _get_corr_arguments(dp_x_d, dp_y_d, k): shift_d holds the two predictor
\* components; strain_d is gpu_strain of them when self.deform
get_corr_arguments(dp_x_d, dp_y_d, spacing, deform) ==
    [shift_d |-> Some(<<dp_x_d, dp_y_d>>),
     strain_d |-> IF deform THEN Some(gradient(dp_x_d, dp_y_d, F(spacing), 2, 2, NaN))
                  ELSE None]

\* a PIVGPU object entering __call__: shift_d, strain_d, dp_x_d and dp_y_d
\* start as None. invocations lists the arguments of each call of self.corr,
\* predictors what each _get_next_iteration_prediction returned
InvokeInit ==
    /\ grid = Idle /\ med = Idle /\ val = Idle /\ strain = Idle /\ interp = Idle
    /\ \E window_size_iters \in InvokeSchedules, deform \in BOOLEAN,
          extend_ratio \in {None, Some(2)}, nb_validation_iter \in {0, 1},
          trust_1st_iter \in BOOLEAN :
          LET ws == WindowSchedule(window_size_iters, InvokeMinWindowSize)
          IN  run = [pc |-> "arguments", ws |-> ws,
                     spacing |-> [K \in DOMAIN ws |-> PIVSpacing(ws[K], Frac(1, 2))],
                     nb_iter_max |-> Last(ws) + 1,
                     deform |-> deform, extend_ratio |-> extend_ratio,
                     nb_validation_iter |-> nb_validation_iter,
                     trust_1st_iter |-> trust_1st_iter,
                     k |-> 0, extended_size |-> None,
                     shift_d |-> None, strain_d |-> None,
                     dp_x_d |-> None, dp_y_d |-> None,
                     invocations |-> <<>>, predictors |-> <<>>,
                     error |-> "none", raised_in |-> "none"]

\* the head of one pass of the main loop
CorrArguments ==
    /\ run.pc = "arguments"
    /\ run' = IF run.k = 0
              THEN [run EXCEPT !.pc = "corr",
                               !.extended_size =
                                   IF run.extend_ratio # None
                                   THEN Some(run.ws[0] * run.extend_ratio[1])
                                   ELSE None]
              ELSE LET a == get_corr_arguments(run.dp_x_d[1], run.dp_y_d[1],
                                               run.spacing[run.k], run.deform)
                   IN  [run EXCEPT !.pc = "corr", !.extended_size = None,
                                   !.shift_d = a.shift_d, !.strain_d = a.strain_d]
    /\ UNCHANGED <<grid, med, val, strain, interp>>

\* self.corr(self.ws[k], self.overlap_ratio, extended_size=extended_size,
\* d_shift=shift_d, d_strain=strain_d)
CorrCall ==
    /\ run.pc = "corr"
    /\ run' = [run EXCEPT !.pc = "rest",
                          !.invocations = Append(@, [window_size |-> run.ws[run.k],
                                                     extended_size |-> run.extended_size,
                                                     d_shift |-> run.shift_d,
                                                     d_strain |-> run.strain_d])]
    /\ UNCHANGED <<grid, med, val, strain, interp>>

\* the rest of the pass: the field is updated, validated (where the first
\* round raises TypeError) and, before the last iteration, turned into the
\* predictor of the next one; the predictor's values are left open here
RestOfPass ==
    /\ run.pc = "rest"
    /\ \E dp_x_d \in PredictorFields, dp_y_d \in PredictorFields :
          run' = IF ~(run.k = 0 /\ run.trust_1st_iter) /\ run.nb_validation_iter > 0
                 THEN Raise("TypeError", "_validate_fields")
                 ELSE IF run.k < run.nb_iter_max - 1
                 THEN [run EXCEPT !.pc = "arguments", !.k = @ + 1,
                                  !.dp_x_d = Some(dp_x_d), !.dp_y_d = Some(dp_y_d),
                                  !.predictors = Append(@, <<dp_x_d, dp_y_d>>)]
                 ELSE [run EXCEPT !.pc = "return"]
    /\ UNCHANGED <<grid, med, val, strain, interp>>

InvokeNext == CorrArguments \/ CorrCall \/ RestOfPass

SpecInvoke == InvokeInit /\ [][InvokeNext]_vars

\* C24: the correlator gets no shift and no strain in iteration 0, and in
\* every iteration k >= 1 no extended size, the predictor of the end of
\* iteration k - 1 as shift, and a strain tensor of that predictor exactly
\* when deform is set.
CorrelatorArguments ==
    \A j \in 1 .. Len(run.invocations) :
        LET a == run.invocations[j]
        IN  IF j = 1
            THEN /\ a.d_shift = None
                 /\ a.d_strain = None
                 /\ a.extended_size # None <=> run.extend_ratio # None
            ELSE /\ a.extended_size = None
                 /\ a.d_shift = Some(run.predictors[j - 1])
                 /\ a.d_strain # None <=> run.deform
                 /\ run.deform =>
                       a.d_strain = Some(gradient(run.predictors[j - 1][1],
                                                  run.predictors[j - 1][2],
                                                  F(run.spacing[j - 1]), 2, 2, NaN))

\* a run without deformation and with an extended first search has called
\* the correlator in three iterations, the last two with different predictors
CorrelatorArgumentsWitness ==
    /\ Len(run.invocations) = 3
    /\ ~run.deform
    /\ run.extend_ratio # None
    /\ run.invocations[2].d_shift # run.invocations[3].d_shift

-----------------------------------------------------------------------------
(* GPUCorrelation.sig2noise_ratio for one window.                          *)

\* sides of the correlation map explored
FftSizes == {4, 6}

\* 1 / 1e-20, the value that replaces a zero second peak; 1e9 stands for 1e20
\* to stay within the integers of the checker: what matters is that the
\* replacement is positive and smaller than every other second peak
TinyInverse == 1000000000

\* values of the first peak: zero, below 1e-3, below 0.1, above
FirstPeaks == {F(0), Frac(1, 2000), Frac(1, 20), Frac(1, 2), F(1)}

\* values of the second peak, corr_max2
SecondPeaks == {F(0), Frac(1, 4), NaN}

\* sig2noise[...] = 0.0 under the border mask: the product of the four
\* comparisons, peak_row == 0, peak_row == data.shape[1], peak_col == 0 and
\* peak_col == data.shape[2]
border_mask(peak_row, peak_col, fft_size) ==
    Bool(peak_row = 0) * Bool(peak_row = fft_size) * Bool(peak_col = 0)
        * Bool(peak_col = fft_size) = 1

\* sig2noise_ratio for one window, given its first peak and corr_max2
sig2noise_ratio(corr_max1, corr_max2, peak_row, peak_col, fft_size) ==
    LET max2 == IF FEq(corr_max2, F(0)) THEN Frac(1, TinyInverse) ELSE corr_max2
        ratio == FDiv(corr_max1, max2)
        no_nan == IF IsNaN(ratio) THEN F(0) ELSE ratio
        signal == IF FLt(corr_max1, Frac(1, 1000)) THEN F(0) ELSE no_nan
    IN  IF border_mask(peak_row, peak_col, fft_size) THEN F(0) ELSE signal

\* a correlation map reduced to its maximum, the flat index of the maximum and
\* the second peak
SignalInit ==
    /\ grid = Idle /\ med = Idle /\ strain = Idle /\ interp = Idle /\ run = Idle
    /\ \E fft_size \in FftSizes, maximum \in FirstPeaks, corr_max2 \in SecondPeaks :
       \E max_idx \in 0 .. (fft_size * fft_size - 1) :
          val = [pc |-> "map", fft_size |-> fft_size, maximum |-> maximum,
                 max_idx |-> max_idx, corr_max2 |-> corr_max2]

\* _find_peak, which GPUCorrelation.__call__ runs, followed by sig2noise_ratio
CallSig2noiseRatio ==
    /\ val.pc = "map"
    /\ LET peak == find_peak(val.maximum, val.max_idx, val.fft_size)
       IN  val' = [val EXCEPT !.pc = "ratio"] @@
                  [peak_row |-> peak[1], peak_col |-> peak[2],
                   corr_max1 |-> val.maximum,
                   sig2noise |-> sig2noise_ratio(val.maximum, val.corr_max2, peak[1],
                                                 peak[2], val.fft_size)]
    /\ UNCHANGED <<grid, med, strain, interp, run>>

SpecSignal == SignalInit /\ [][CallSig2noiseRatio]_vars

\* the first peak lies on the border of the correlation map
PeakOnBorder ==
    \/ val.peak_row \in {0, val.fft_size - 1}
    \/ val.peak_col \in {0, val.fft_size - 1}

\* C25: sig2noise_ratio returns 0 for a window whose first peak lies on the
\* border of its correlation map, and for a window whose first-peak value is
\* below 1e-3.
BorderOrWeakPeakGivesZero ==
    (val.pc = "ratio" /\ (PeakOnBorder \/ FLt(val.corr_max1, Frac(1, 1000)))) =>
        val.sig2noise = F(0)

\* what the code does: only the weak first peak (and a NaN ratio) gives 0;
\* the position of the peak has no effect
OnlyWeakPeakGivesZero ==
    val.pc = "ratio" =>
        /\ FLt(val.corr_max1, Frac(1, 1000)) => val.sig2noise = F(0)
        /\ (~FLt(val.corr_max1, Frac(1, 1000)) /\ ~IsNaN(val.corr_max2)) =>
              val.sig2noise # F(0)

-----------------------------------------------------------------------------
(* The grid of the orchestrator against the grid of the correlator.        *)

\* _iw_arrange: spacing = DTYPE_i(self.window_size * self.overlap_ratio)
iw_arrange_spacing(window_size, overlap_ratio) ==
    FTrunc(FMul(F(window_size), overlap_ratio))

\* the shape and spacing of PIVGPU.__init__ equal those GPUCorrelation uses
\* for the same image, window size and overlap ratio
SameGridAsCorrelator ==
    /\ grid.result = get_field_shape(grid.image_size, grid.window_size,
                                     grid.overlap_ratio)
    /\ grid.spacing = FMul(F(grid.window_size), grid.overlap_ratio)
    /\ grid.spacing = F(iw_arrange_spacing(grid.window_size, grid.overlap_ratio))

\* C26: for every valid window size, overlap ratio in (0, 1) and image shape,
\* n_row, n_col and spacing of PIVGPU equal the shape of get_field_shape and
\* the spacings of GPUCorrelation.__call__ and _iw_arrange.
OrchestratorGridIsCorrelatorGrid ==
    (/\ grid.pc = "pivgpu_init"
     /\ FieldArgsValid(grid.window_size, grid.overlap_ratio)
     /\ grid.image_size[1] >= grid.window_size
     /\ grid.image_size[2] >= grid.window_size) =>
        SameGridAsCorrelator

\* what holds: the grids agree when the overlap ratio is 1/2
OrchestratorGridIsCorrelatorGridHalfOverlap ==
    (/\ grid.pc = "pivgpu_init"
     /\ FieldArgsValid(grid.window_size, grid.overlap_ratio)
     /\ grid.overlap_ratio = Frac(1, 2)) =>
        SameGridAsCorrelator

-----------------------------------------------------------------------------
(* The neighbour count N of the median and mean kernels.                   *)

\* the reads of the local array stay inside A[0..7], and the denominator of
\* u_mean_vel / u_fluc_k for the same neighbours is not zero
KernelsDefinedFor(n, np) ==
    /\ MedianReads(CountPresent(sort(LocalArrays(n, np)).B)) \subseteq 0 .. 7
    /\ SumPresent(np) # 0

\* C28: for every neighbour count N in 0..8 the median kernels read only
\* A[0..7] and the mean kernels never divide by zero.
NeighbourKernelsDefined ==
    med.pc = "done" => KernelsDefinedFor(med.n, med.np)

\* what holds: with at least one neighbour present the reads are inside the
\* array and the denominator is positive; with none, A[-1] is read, the
\* denominator is 0 and the median depends on what lies in front of A
NeighbourKernelsDefinedWithNeighbours ==
    med.pc = "done" =>
        IF PresentIdx # {} THEN KernelsDefinedFor(med.n, med.np)
        ELSE /\ MedianReads(0) = {-1, 0}
             /\ SumPresent(med.np) = 0
             /\ ~IsFinite(mean_vel(med.n, med.np))

-----------------------------------------------------------------------------
(* The window samplers window_slice and window_slice_deform, one thread    *)
(* (window ind_i, window pixel ind_x, ind_y) at a time.                    *)

\* the largest frame side explored
MaxFrameSide == 9

\* the window size explored; the extended size is ws or 2 * ws
SliceWindowSize == 4

\* ceilf
ceilf(x) == -FFloor(FNeg(x))

\* the grey level of the frame at row y, column x: never 0, so that a sampled
\* pixel differs from a zeroed one
FramePixel(y, x) == 1 + ((x + 2 * y) % 3)

\* input[i] of the frame stored flat
FrameInput(i, wd) == FramePixel(i \div wd, i % wd)

\* one thread of window_slice: the output value and the element of input read
window_slice(ind_i, ind_x, ind_y, ws, spacing, diff, n_col, wd, ht) ==
    LET x == (ind_i % n_col) * spacing + diff + ind_x
        y == (ind_i \div n_col) * spacing + diff + ind_y
        outside_range == Bool(x >= 0 /\ x < wd /\ y >= 0 /\ y < ht)
    IN  [output |-> F(FrameInput((y * wd + x) * outside_range, wd) * outside_range),
         reads |-> {(y * wd + x) * outside_range}]

\* one thread of window_slice_deform; shift and strain are the entries of
\* window ind_i, f the shift factor
window_slice_deform(ind_i, ind_x, ind_y, shift, strain_t, f, ws, spacing, diff, n_col, wd, ht) ==
    LET dx == FMul(shift[1], f)
        dy == FMul(shift[2], f)
        u_x == FMul(strain_t[1], f)
        u_y == FMul(strain_t[2], f)
        v_x == FMul(strain_t[3], f)
        v_y == FMul(strain_t[4], f)
        r_x == FAdd(F(ind_x - ws \div 2), Frac(1, 2))
        r_y == FAdd(F(ind_y - ws \div 2), Frac(1, 2))
        x_shift == FAdd(FAdd(FAdd(F(ind_x), dx), FMul(r_x, u_x)), FMul(r_y, u_y))
        y_shift == FAdd(FAdd(FAdd(F(ind_y), dy), FMul(r_x, v_x)), FMul(r_y, v_y))
        x == FAdd(FAdd(F((ind_i % n_col) * spacing), x_shift), F(diff))
        y == FAdd(FAdd(F((ind_i \div n_col) * spacing), y_shift), F(diff))
        x1 == FFloor(x)
        y1 == FFloor(y)
        x2 == IF ceilf(x) = x1 THEN x1 + 1 ELSE ceilf(x)
        y2 == IF ceilf(y) = y1 THEN ceilf(y) + 1 ELSE ceilf(y)
        outside_range == Bool(x1 >= 0 /\ x2 < wd /\ y1 >= 0 /\ y2 < ht)
        i11 == (y1 * wd + x1) * outside_range
        i21 == (y1 * wd + x2) * outside_range
        i12 == (y2 * wd + x1) * outside_range
        i22 == (y2 * wd + x2) * outside_range
        term(i, a, b) == FMul(FMul(F(FrameInput(i, wd)), a), b)
    IN  [output |-> FMul(FAdd(FAdd(FAdd(term(i11, FSub(F(x2), x), FSub(F(y2), y)),
                                        term(i21, FSub(x, F(x1)), FSub(F(y2), y))),
                                   term(i12, FSub(F(x2), x), FSub(y, F(y1)))),
                              term(i22, FSub(x, F(x1)), FSub(y, F(y1)))),
                         F(outside_range)),
         reads |-> {i11, i21, i12, i22}]

\* a thread of the launch of _iw_arrange for a frame, an extended size and the
\* shift and strain of its window; overlap ratio 1/2
SliceInit ==
    /\ grid = Idle /\ med = Idle /\ val = Idle /\ interp = Idle /\ run = Idle
    /\ \E ht \in (MaxFrameSide - 1) .. MaxFrameSide, wd \in (MaxFrameSide - 1) .. MaxFrameSide,
          extended_size \in {SliceWindowSize, 2 * SliceWindowSize},
          s \in {F(0), F(1)}, e \in {F(0), Frac(1, 2)} :
          LET n_row == FieldShapeDim(ht, FMul(F(SliceWindowSize), Frac(1, 2)))
              n_col == FieldShapeDim(wd, FMul(F(SliceWindowSize), Frac(1, 2)))
              spacing == iw_arrange_spacing(SliceWindowSize, Frac(1, 2))
          IN  \E ind_i \in 0 .. (n_row * n_col - 1),
                 ind_x \in 0 .. (extended_size - 1), ind_y \in 0 .. (extended_size - 1) :
                 strain = [pc |-> "thread", ht |-> ht, wd |-> wd,
                           ws |-> extended_size, spacing |-> spacing,
                           diff |-> FTrunc(FSub(F(spacing), FDiv(F(extended_size), F(2)))),
                           n_col |-> n_col, ind_i |-> ind_i, ind_x |-> ind_x,
                           ind_y |-> ind_y, shift |-> <<s, s>>,
                           strain_t |-> <<e, e, e, e>>]

\* the thread run by both kernels on frame b (shift factor 0.5)
SliceWindow ==
    /\ strain.pc = "thread"
    /\ strain' = [strain EXCEPT !.pc = "sliced"] @@
                 [plain |-> window_slice(strain.ind_i, strain.ind_x, strain.ind_y,
                                         strain.ws, strain.spacing, strain.diff,
                                         strain.n_col, strain.wd, strain.ht),
                  deform |-> window_slice_deform(strain.ind_i, strain.ind_x, strain.ind_y,
                                                 strain.shift, strain.strain_t, Frac(1, 2),
                                                 strain.ws, strain.spacing, strain.diff,
                                                 strain.n_col, strain.wd, strain.ht)]
    /\ UNCHANGED <<grid, med, val, interp, run>>

SpecSlice == SliceInit /\ [][SliceWindow]_vars

\* the thread ran with an all-zero shift and an all-zero strain tensor
ZeroDeformation ==
    /\ strain.pc = "sliced"
    /\ strain.shift = <<F(0), F(0)>>
    /\ strain.strain_t = <<F(0), F(0), F(0), F(0)>>

\* the source pixel of the thread
SourceX == (strain.ind_i % strain.n_col) * strain.spacing + strain.diff + strain.ind_x

SourceY == (strain.ind_i \div strain.n_col) * strain.spacing + strain.diff + strain.ind_y

SamplersAgreeOffLastRowAndColumn ==
    ZeroDeformation =>
        /\ strain.deform.reads \subseteq 0 .. (strain.ht * strain.wd - 1)
        /\ strain.plain.reads \subseteq 0 .. (strain.ht * strain.wd - 1)
        /\ IF /\ SourceX \in 0 .. (strain.wd - 1) /\ SourceY \in 0 .. (strain.ht - 1)
              /\ (SourceX = strain.wd - 1 \/ SourceY = strain.ht - 1)
           THEN /\ strain.deform.output = F(0)
                /\ strain.plain.output = F(FramePixel(SourceY, SourceX))
           ELSE strain.deform.output = strain.plain.output

-----------------------------------------------------------------------------
(* The threads of one kernel launch, run in any order.                     *)

\* the number of nodes of the fields the launches work on
LaunchNodes == 4

\* an index list that names element 0 for every selected node
RECURSIVE where_all_first(_, _)
where_all_first(flags, n) ==
    IF n = 0 THEN <<>>
    ELSE IF flags[n - 1] THEN Append(where_all_first(flags, n - 1), 0)
         ELSE where_all_first(flags, n - 1)

\* np.where(flags.flatten())[0]: the indices of the selected nodes, ascending
RECURSIVE where(_, _)
where(flags, n) ==
    IF n = 0 THEN <<>>
    ELSE IF flags[n - 1] THEN Append(where(flags, n - 1), n - 1)
         ELSE where(flags, n - 1)

\* the elements of u and v the gradient kernel reads for thread i
gradient_reads(i, m, n) ==
    LET row == i \div n
        col == i % n
        xs == IF col = 0 THEN {row * n + 1, row * n}
              ELSE IF col = n - 1 THEN {(row + 1) * n - 1, (row + 1) * n - 2}
              ELSE {row * n + col + 1, row * n + col - 1}
        ys == IF row = 0 THEN {n + col, col}
              ELSE IF row = m - 1 THEN {n * (m - 1) + col, n * (m - 2) + col}
              ELSE {(row + 1) * n + col, (row - 1) * n + col}
    IN  {<<a, j>> : a \in {"u", "v"}, j \in xs \cup ys}

\* the launches: the kernel, its arguments, its number of threads and the
\* initial content of the array it writes
Launches ==
    {[kernel |-> "window_slice", ht |-> 2, wd |-> 3, ws |-> 2, spacing |-> 1,
      diff |-> diff, n_col |-> 2, threads |-> 8,
      mem |-> [loc \in {<<"output", w>> : w \in 0 .. 7} |-> F(0)]] : diff \in {-1, 0}}
    \cup
    {[kernel |-> "update_values", size |-> LaunchNodes - 1, threads |-> LaunchNodes,
      f_old |-> [w \in 0 .. (LaunchNodes - 2) |-> F(w)],
      peak |-> [w \in 0 .. (LaunchNodes - 2) |-> Frac(1, 2)],
      mask |-> mask,
      mem |-> [loc \in {<<"f_new", w>> : w \in 0 .. (LaunchNodes - 2)} |-> garbage]] :
        mask \in [0 .. (LaunchNodes - 2) -> {F(0), F(1)}], garbage \in {F(0), NaN}}
    \cup
    {[kernel |-> "neighbour_validation", size |-> LaunchNodes - 1, threads |-> LaunchNodes,
      f |-> [w \in 0 .. (LaunchNodes - 2) |-> F(w)],
      f_mean |-> [w \in 0 .. (LaunchNodes - 2) |-> F(0)],
      f_fluc |-> [w \in 0 .. (LaunchNodes - 2) |-> Frac(1, 2)],
      tol |-> F(2),
      mem |-> [loc \in {<<"val_list", w>> : w \in 0 .. (LaunchNodes - 2)} |-> val_list[loc[2]]]] :
        val_list \in [0 .. (LaunchNodes - 2) -> {0, 1}]}
    \cup
    {[kernel |-> "gradient", m |-> 2, n |-> n, size |-> 2 * n, threads |-> 2 * n + 1,
      u |-> LinearField(2, n, F(1), F(1), F(0), 0, F(1)),
      v |-> LinearField(2, n, F(1), F(0), F(1), 0, F(0)),
      h |-> F(2),
      mem |-> [loc \in {<<"strain", j>> : j \in 0 .. (8 * n - 1)} |-> NaN]] : n \in {2, 3}}
    \cup
    {[kernel |-> "index_update", threads |-> LaunchNodes + 1,
      indices |-> where(flags, LaunchNodes),
      values |-> [t \in 1 .. Len(where(flags, LaunchNodes)) |-> F(10 + t)],
      mem |-> [loc \in {<<"dest", w>> : w \in 0 .. (LaunchNodes - 1)} |-> F(loc[2])]] :
        flags \in [0 .. (LaunchNodes - 1) -> BOOLEAN]}

\* what thread t writes, computed from the memory it finds
ThreadEffect(l, t, mem) ==
    CASE l.kernel = "window_slice" ->
            LET ind_i == t \div (l.ws * l.ws)
                ind_y == (t % (l.ws * l.ws)) \div l.ws
                ind_x == t % l.ws
            IN  (<<"output", ind_i * l.ws * l.ws + l.ws * ind_y + ind_x>> :>
                    window_slice(ind_i, ind_x, ind_y, l.ws, l.spacing, l.diff,
                                 l.n_col, l.wd, l.ht).output)
      [] l.kernel = "update_values" ->
            IF t >= l.size THEN <<>>
            ELSE (<<"f_new", t>> :> update_values(l.f_old[t], l.peak[t], l.mask[t]))
      [] l.kernel = "neighbour_validation" ->
            IF t >= l.size THEN <<>>
            ELSE (<<"val_list", t>> :>
                    neighbour_validation(mem[<<"val_list", t>>], l.f[t], l.f_mean[t],
                                         l.f_fluc[t], l.tol))
      [] l.kernel = "gradient" ->
            IF t >= l.size THEN <<>>
            ELSE LET g == gradient_x(t, l.u, l.v, l.h, l.m, l.n, NaN)
                          @@ gradient_y(t, l.u, l.v, l.h, l.m, l.n, NaN)
                 IN  [loc \in {<<"strain", j>> : j \in DOMAIN g} |-> g[loc[2]]]
      [] l.kernel = "index_update" ->
            IF t >= Len(l.values) THEN <<>>
            ELSE (<<"dest", l.indices[t + 1]>> :> l.values[t + 1])

\* the elements thread t reads
ThreadReads(l, t) ==
    CASE l.kernel = "window_slice" ->
            LET ind_i == t \div (l.ws * l.ws)
                ind_y == (t % (l.ws * l.ws)) \div l.ws
                ind_x == t % l.ws
            IN  {<<"input", i>> : i \in window_slice(ind_i, ind_x, ind_y, l.ws, l.spacing,
                                                     l.diff, l.n_col, l.wd, l.ht).reads}
      [] l.kernel = "update_values" ->
            IF t >= l.size THEN {} ELSE {<<"f_old", t>>, <<"peak", t>>, <<"mask", t>>}
      [] l.kernel = "neighbour_validation" ->
            IF t >= l.size THEN {}
            ELSE {<<"val_list", t>>, <<"f", t>>, <<"f_mean", t>>, <<"f_fluc", t>>}
      [] l.kernel = "gradient" ->
            IF t >= l.size THEN {} ELSE gradient_reads(t, l.m, l.n)
      [] l.kernel = "index_update" ->
            IF t >= Len(l.values) THEN {} ELSE {<<"indices", t>>, <<"values", t>>}

LaunchInit ==
    /\ grid = Idle /\ med = Idle /\ val = Idle /\ strain = Idle /\ interp = Idle
    /\ \E l \in Launches :
          run = [pc |-> "running", launch |-> l, mem |-> l.mem,
                 pending |-> 0 .. (l.threads - 1)]

\* any thread that has not run yet runs to its end
RunThread ==
    /\ run.pc = "running"
    /\ \E t \in run.pending :
          run' = [run EXCEPT !.mem = ThreadEffect(run.launch, t, run.mem) @@ run.mem,
                             !.pending = @ \ {t},
                             !.pc = IF run.pending = {t} THEN "done" ELSE "running"]
    /\ UNCHANGED <<grid, med, val, strain, interp>>

SpecLaunch == LaunchInit /\ [][RunThread]_vars

\* the memory after the threads t, t + 1, ... have run in this order
RECURSIVE InOrderFrom(_, _, _)
InOrderFrom(l, t, mem) ==
    IF t >= l.threads THEN mem
    ELSE InOrderFrom(l, t + 1, ThreadEffect(l, t, mem) @@ mem)

\* C30: in a launch no two threads write the same element and no thread reads
\* an element another thread writes, so the result is the same for every
\* order of the threads.
LaunchRaceFree ==
    LET l == run.launch
        Writes(t) == DOMAIN ThreadEffect(l, t, l.mem)
    IN  /\ \A t1 \in 0 .. (l.threads - 1), t2 \in 0 .. (l.threads - 1) :
              t1 # t2 => /\ Writes(t1) \cap Writes(t2) = {}
                         /\ ThreadReads(l, t1) \cap Writes(t2) = {}
        /\ run.pc = "done" => run.mem = InOrderFrom(l, 0, l.mem)

\* an index update with three indices has finished and has changed the
\* destination array
LaunchRaceFreeWitness ==
    /\ run.pc = "done"
    /\ run.launch.kernel = "index_update"
    /\ Len(run.launch.indices) = 3
    /\ run.mem # run.launch.mem

=============================================================================
